---- MODULE Spec2Model ----
(***************************************************************************)
(* Model of the SRT-to-timestamps pipeline of vibestamps:                  *)
(*   - lib/chunk-processor.ts   createTimeBasedChunks and its helpers      *)
(*   - lib/srt-parser.ts        parseSrtContent                            *)
(*   - lib/timestamp-utils/normalizer.ts  normalizeTimestampFormat         *)
(*   - lib/schemas.ts           timestampsOutputSchema                     *)
(*   - lib/srt-parser.ts        findNaturalBreakPoints, getVideoMetadata   *)
(*   - lib/video-analyzer.ts    calculateOptimalTimestamps                 *)
(*                                                                         *)
(* Conventions.                                                            *)
(*   A string is a sequence of one-character strings.                      *)
(*   Array indices are the code's 0-based indices; At(s, i) is s[i].       *)
(*   A second count is held in milliseconds (an integer), so the code's    *)
(*   "x seconds" comparisons are comparisons against x * 1000.             *)
(*   In the chunker an SRT timestamp HH:MM:SS,mmm is held as the tuple of  *)
(*   its four numeric fields; the parser works on the characters.          *)
(*   Scores are exact rationals (the code uses IEEE doubles).              *)
(***************************************************************************)
EXTENDS Integers, Sequences, FiniteSets, TLC

VARIABLES
    \* createTimeBasedChunks
    entries,            \* the SrtEntry[] argument
    options,            \* the ChunkingOptions argument
    strategy,           \* analysis.processingStrategy
    currentChunkStart,  \* loop variable
    chunkId,            \* loop variable
    chunks,             \* the chunk list built so far / returned
    pc,                 \* "idle" | "loop" | "done" (returned) | "threw" (TypeError)
    \* parseSrtContent
    content,            \* the string argument
    srcEntries,         \* the entries content was serialized from (<<>> if none)
    serialized,         \* TRUE when content is the serialization of srcEntries
    parsed,             \* the returned SrtEntry[]
    parsePc,            \* "idle" | "call" | "returned"
    \* normalizeTimestampResponse
    response,           \* the TimestampResponse argument: its keyMoments
    isLongContent,      \* the flag argument
    normalized,         \* the returned keyMoments
    normPc,             \* "idle" | "call" | "returned"
    \* timestampsOutputSchema.safeParse
    output,             \* the object validated
    validation,         \* the outcome of the base schema and of each refinement
    validatePc,         \* "idle" | "call" | "returned"
    \* findNaturalBreakPoints
    breakEntries,       \* the SrtEntry[] argument
    breakPoints,        \* the returned BreakPoint[]
    breakPc,            \* "idle" | "call" | "returned"
    \* getVideoMetadata
    metaEntries,        \* the SrtEntry[] argument
    metadata,           \* the returned VideoMetadata
    metaPc,             \* "idle" | "call" | "returned"
    \* calculateOptimalTimestamps
    videoMinutes,           \* the durationMinutes argument
    optimalTimestampCount,  \* the returned count
    analyzePc,              \* "idle" | "call" | "returned"
    \* analyzeVideoForProcessing
    videoMetadata,      \* the VideoMetadata argument
    analysis,           \* the returned VideoAnalysis
    processingPc,       \* "idle" | "call" | "returned"
    \* POST /api/generate
    request,            \* the Request: content-length header and body
    schemaSource,       \* the file generateApiRequestSchema is built from
    validated,          \* the outcome of validateGenerateRequest
    thrown,             \* what the try block threw ("none" if nothing)
    extractCalls,       \* calls of SrtMetadataExtractor.extract
    generateCalls,      \* calls of service.generateTimestamps
    responseStatus,     \* HTTP status of the response (0: none yet)
    postPc,             \* "idle" | "received" | "validated" | "extracted" |
                        \* "generated" | "caught" | "responded"
    \* withExponentialRetry
    config,             \* the RetryConfig argument
    attempt,            \* loop variable
    lastError,          \* local: the error caught last ("null" if none)
    events,             \* what happened so far: operation calls, onRetry
                        \* calls and waits, in order
    settled,            \* the value returned or the error thrown
    retryPc,            \* "idle" | "loop" | "returned" | "rejected"
    \* validateChunks
    checkedChunks,      \* the SrtChunk[] argument
    chunkValidation,    \* the returned { isValid, errors, warnings }
    checkPc             \* "idle" | "call" | "returned"

chunkVars == <<entries, options, strategy, currentChunkStart, chunkId, chunks, pc>>
parseVars == <<content, srcEntries, serialized, parsed, parsePc>>
normVars == <<response, isLongContent, normalized, normPc>>
outputVars == <<output, validation, validatePc>>
breakVars == <<breakEntries, breakPoints, breakPc>>
metaVars == <<metaEntries, metadata, metaPc>>
analyzeVars == <<videoMinutes, optimalTimestampCount, analyzePc>>
processingVars == <<videoMetadata, analysis, processingPc>>
requestVars == <<request, schemaSource, validated, thrown, extractCalls, generateCalls, responseStatus, postPc>>
retryVars == <<config, attempt, lastError, events, settled, retryPc>>
checkVars == <<checkedChunks, chunkValidation, checkPc>>
vars == <<chunkVars, parseVars, normVars, outputVars, breakVars, metaVars, analyzeVars, processingVars, requestVars, retryVars, checkVars>>

----------------------------------------------------------------------------
(* Bounds of the model *)

MaxEntries == 3
MaxChunks == 5
MaxPieces == 4
MaxSrcEntries == 2
MaxMoments == 2
MaxTimestamps == 4
MaxBreakEntries == 3
MaxMetaEntries == 10
MaxDurationMinutes == 160
MaxMetadataMinutes == 600
MaxRetryCount == 4
MaxCheckedChunks == 2

----------------------------------------------------------------------------
(* Generic helpers *)

Max(a, b) == IF a >= b THEN a ELSE b
Min(a, b) == IF a <= b THEN a ELSE b

\* JavaScript array read a[i] with a 0-based index; only used in range.
At(s, i) == s[i + 1]

\* Array.prototype.slice(from, to) with 0 <= from <= to <= length.
Slice(s, from, to) == [k \in 1..(to - from) |-> s[from + k]]

\* String.prototype.includes
Includes(text, pat) ==
    \E k \in 0..(Len(text) - Len(pat)) :
        \A j \in 1..Len(pat) : text[k + j] = pat[j]

\* The concatenation of a sequence of strings.
RECURSIVE Concat(_)
Concat(ss) == IF ss = <<>> THEN <<>> ELSE Head(ss) \o Concat(Tail(ss))

IsSpace(c) == c \in {" ", "\t", "\n", "\r"}

\* text.split(/\s+/).length : one more than the number of whitespace runs.
SplitWsCount(text) ==
    1 + Cardinality({k \in 1..Len(text) :
                        IsSpace(text[k]) /\ (k = 1 \/ ~IsSpace(text[k - 1]))})

\* String.prototype.toLowerCase on the letters the model's texts use.
LowerChar(c) ==
    CASE c = "S" -> "s"
      [] c = "N" -> "n"
      [] c = "O" -> "o"
      [] c = "K" -> "k"
      [] OTHER -> c

ToLowerCase(text) == [k \in 1..Len(text) |-> LowerChar(text[k])]

----------------------------------------------------------------------------
(* srt-parser.ts: time conversion *)

\* srtTimeToSeconds, in milliseconds, of a timestamp held as its four fields.
SrtTimeToMs(t) == t[1] * 3600000 + t[2] * 60000 + t[3] * 1000 + t[4]

----------------------------------------------------------------------------
(* srt-parser.ts: parseSrtContent *)

IsDigit(c) == c \in {"0", "1", "2", "3", "4", "5", "6", "7", "8", "9"}

DigitVal(c) ==
    CASE c = "0" -> 0 [] c = "1" -> 1 [] c = "2" -> 2 [] c = "3" -> 3
      [] c = "4" -> 4 [] c = "5" -> 5 [] c = "6" -> 6 [] c = "7" -> 7
      [] c = "8" -> 8 [] c = "9" -> 9

\* String.prototype.trim
Trim(s) ==
    LET keep == {k \in 1..Len(s) : ~IsSpace(s[k])}
    IN  IF keep = {} THEN <<>>
        ELSE SubSeq(s, CHOOSE k \in keep : \A j \in keep : k <= j,
                       CHOOSE k \in keep : \A j \in keep : k >= j)

CharAt(s, p) == IF p >= 1 /\ p <= Len(s) THEN s[p] ELSE "<end>"

\* Length of the match of /\r?\n\r?\n/ starting at position p; 0 when none.
BlankSeparatorAt(s, p) ==
    LET nlnl(q) == IF CharAt(s, q) # "\n" THEN 0
                   ELSE IF CharAt(s, q + 1) = "\r" /\ CharAt(s, q + 2) = "\n" THEN 3
                   ELSE IF CharAt(s, q + 1) = "\n" THEN 2
                   ELSE 0
    IN  IF CharAt(s, p) = "\r" /\ nlnl(p + 1) > 0 THEN 1 + nlnl(p + 1) ELSE nlnl(p)

\* Length of the match of /\r?\n/ starting at position p; 0 when none.
LineSeparatorAt(s, p) ==
    IF CharAt(s, p) = "\r" /\ CharAt(s, p + 1) = "\n" THEN 2
    ELSE IF CharAt(s, p) = "\n" THEN 1
    ELSE 0

\* s.split(/\r?\n\r?\n/), scanning from position p; the current piece began at last.
RECURSIVE SplitBlocksFrom(_, _, _)
SplitBlocksFrom(s, p, last) ==
    IF p > Len(s) THEN <<SubSeq(s, last, Len(s))>>
    ELSE LET m == BlankSeparatorAt(s, p)
         IN  IF m > 0
             THEN <<SubSeq(s, last, p - 1)>> \o SplitBlocksFrom(s, p + m, p + m)
             ELSE SplitBlocksFrom(s, p + 1, last)

SplitBlocks(s) == SplitBlocksFrom(s, 1, 1)

\* s.split(/\r?\n/)
RECURSIVE SplitLinesFrom(_, _, _)
SplitLinesFrom(s, p, last) ==
    IF p > Len(s) THEN <<SubSeq(s, last, Len(s))>>
    ELSE LET m == LineSeparatorAt(s, p)
         IN  IF m > 0
             THEN <<SubSeq(s, last, p - 1)>> \o SplitLinesFrom(s, p + m, p + m)
             ELSE SplitLinesFrom(s, p + 1, last)

SplitLines(s) == SplitLinesFrom(s, 1, 1)

\* The value of the digits s[p..], read left to right from the value acc.
RECURSIVE DigitsValue(_, _, _)
DigitsValue(s, p, acc) ==
    IF p <= Len(s) /\ IsDigit(s[p])
    THEN DigitsValue(s, p + 1, acc * 10 + DigitVal(s[p]))
    ELSE acc

\* parseInt(s, 10): leading white space, an optional sign, then the longest
\* run of digits; NaN when there is no digit.
ParseInt(s) ==
    LET t == Trim(s)
        signed == Len(t) > 0 /\ t[1] \in {"-", "+"}
        first == IF signed THEN 2 ELSE 1
        magnitude == DigitsValue(t, first, 0)
    IN  IF first > Len(t) \/ ~IsDigit(t[first])
        THEN [nan |-> TRUE, value |-> 0]
        ELSE [nan |-> FALSE,
              value |-> IF signed /\ t[1] = "-" THEN 0 - magnitude ELSE magnitude]

\* /(\d{2}:\d{2}:\d{2},\d{3}) --> (\d{2}:\d{2}:\d{2},\d{3})/ ; "#" stands for \d.
TimeLinePattern ==
    <<"#","#",":","#","#",":","#","#",",","#","#","#",
      " ","-","-",">"," ",
      "#","#",":","#","#",":","#","#",",","#","#","#">>

TimeLineMatchesAt(line, p) ==
    /\ p + Len(TimeLinePattern) - 1 <= Len(line)
    /\ \A j \in 1..Len(TimeLinePattern) :
          IF TimeLinePattern[j] = "#"
          THEN IsDigit(line[p + j - 1])
          ELSE line[p + j - 1] = TimeLinePattern[j]

\* lines[1].match(...): the leftmost match and its two groups.
TimeMatch(line) ==
    LET at == {p \in 1..Len(line) : TimeLineMatchesAt(line, p)}
        p == CHOOSE q \in at : \A r \in at : q <= r
    IN  IF at = {} THEN [ok |-> FALSE, startTime |-> <<>>, endTime |-> <<>>]
        ELSE [ok |-> TRUE,
              startTime |-> SubSeq(line, p, p + 11),
              endTime |-> SubSeq(line, p + 17, p + 28)]

\* join("") in place of join(" "): the text lines run together.
JoinLinesNoSeparator(lines) == Concat(lines)

\* Array.prototype.join(" ")
RECURSIVE JoinLines(_)
JoinLines(lines) ==
    IF lines = <<>> THEN <<>>
    ELSE IF Len(lines) = 1 THEN lines[1]
    ELSE lines[1] \o <<" ">> \o JoinLines(Tail(lines))

\* ParseBlock without the check of the time line (line 51): a block whose
\* second line is no time line still gives an entry.
ParseBlockNoTimeCheck(block) ==
    LET lines == SplitLines(block)
        id == ParseInt(Trim(lines[1]))
        timeMatch == TimeMatch(lines[2])
    IN  IF Len(lines) < 3 THEN <<>>
        ELSE IF id.nan THEN <<>>
        ELSE << [ id |-> id.value,
                  startTime |-> timeMatch.startTime,
                  endTime |-> timeMatch.endTime,
                  text |-> Trim(JoinLines(SubSeq(lines, 3, Len(lines)))) ] >>

\* Lines 40-63: the entry a block gives, or no entry (the three continues).
ParseBlock(block) ==
    LET lines == SplitLines(block)
        id == ParseInt(Trim(lines[1]))
        timeMatch == TimeMatch(lines[2])
    IN  IF Len(lines) < 3 THEN <<>>
        ELSE IF id.nan THEN <<>>
        ELSE IF ~timeMatch.ok THEN <<>>
        ELSE << [ id |-> id.value,
                  startTime |-> timeMatch.startTime,
                  endTime |-> timeMatch.endTime,
                  text |-> Trim(JoinLines(SubSeq(lines, 3, Len(lines)))) ] >>

RECURSIVE ParseBlocks(_)
ParseBlocks(blocks) ==
    IF blocks = <<>> THEN <<>>
    ELSE ParseBlock(Head(blocks)) \o ParseBlocks(Tail(blocks))

\* parseSrtContent
ParseSrtContent(text) == ParseBlocks(SplitBlocks(Trim(text)))

----------------------------------------------------------------------------
(* timestamp-utils/normalizer.ts *)

\* timestamp.split(":")
RECURSIVE SplitColonFrom(_, _, _)
SplitColonFrom(s, p, last) ==
    IF p > Len(s) THEN <<SubSeq(s, last, Len(s))>>
    ELSE IF s[p] = ":"
         THEN <<SubSeq(s, last, p - 1)>> \o SplitColonFrom(s, p + 1, p + 1)
         ELSE SplitColonFrom(s, p + 1, last)

SplitColon(s) == SplitColonFrom(s, 1, 1)

\* Number.prototype.toString of a non-negative integer.
RECURSIVE NatToString(_)
NatToString(n) ==
    LET d == <<"0", "1", "2", "3", "4", "5", "6", "7", "8", "9">>[(n % 10) + 1]
    IN  IF n < 10 THEN <<d>> ELSE NatToString(n \div 10) \o <<d>>

\* Number.prototype.toString of what parseInt returned.
NumberToString(n) ==
    IF n.nan THEN <<"N", "a", "N">>
    ELSE IF n.value < 0 THEN <<"-">> \o NatToString(0 - n.value)
    ELSE NatToString(n.value)

\* n.toString().padStart(2, "0")
Pad2(n) ==
    LET str == NumberToString(n)
    IN  IF Len(str) = 0 THEN <<"0", "0">>
        ELSE IF Len(str) = 1 THEN <<"0">> \o str
        ELSE str

\* A formatter that prefixes the hours field without reading the parts.
NormalizeTimestampFormatPrefixed(timestamp, isLong) ==
    IF isLong THEN <<"0", "0", ":">> \o timestamp ELSE timestamp

\* A formatter that drops the hours field of every three-part time of a
\* short video, zero or not.
NormalizeTimestampFormatNoHours(timestamp, isLong) ==
    LET parts == SplitColon(timestamp)
    IN  IF Len(parts) = 3
        THEN IF isLong
             THEN Pad2(ParseInt(parts[1])) \o <<":">> \o Pad2(ParseInt(parts[2]))
                      \o <<":">> \o Pad2(ParseInt(parts[3]))
             ELSE Pad2(ParseInt(parts[2])) \o <<":">> \o Pad2(ParseInt(parts[3]))
        ELSE IF Len(parts) = 2
        THEN IF isLong
             THEN <<"0", "0", ":">> \o Pad2(ParseInt(parts[1])) \o <<":">>
                      \o Pad2(ParseInt(parts[2]))
             ELSE Pad2(ParseInt(parts[1])) \o <<":">> \o Pad2(ParseInt(parts[2]))
        ELSE timestamp

\* normalizeTimestampFormat
NormalizeTimestampFormat(timestamp, isLong) ==
    LET parts == SplitColon(timestamp)
    IN  IF Len(parts) = 3
        THEN LET hours == ParseInt(parts[1])
                 minutes == ParseInt(parts[2])
                 seconds == ParseInt(parts[3])
             IN  IF ~isLong /\ ~hours.nan /\ hours.value = 0
                 THEN Pad2(minutes) \o <<":">> \o Pad2(seconds)
                 ELSE IF isLong
                 THEN Pad2(hours) \o <<":">> \o Pad2(minutes) \o <<":">> \o Pad2(seconds)
                 ELSE timestamp
        ELSE IF Len(parts) = 2
        THEN LET minutes == ParseInt(parts[1])
                 seconds == ParseInt(parts[2])
             IN  IF isLong
                 THEN <<"0", "0", ":">> \o Pad2(minutes) \o <<":">> \o Pad2(seconds)
                 ELSE Pad2(minutes) \o <<":">> \o Pad2(seconds)
        ELSE timestamp

\* normalizeTimestampResponse: the keyMoments of the returned object.
NormalizeTimestampResponse(keyMoments, isLong) ==
    [k \in 1..Len(keyMoments) |->
        [keyMoments[k] EXCEPT !.time = NormalizeTimestampFormat(@, isLong)]]

\* schemas.ts timestampItemSchema.time: /^\d{1,2}:\d{2}(:\d{2})?$/
MatchesTimeSchema(t) ==
    LET parts == SplitColon(t)
        digits(part) == \A k \in 1..Len(part) : IsDigit(part[k])
    IN  /\ Len(parts) \in {2, 3}
        /\ Len(parts[1]) \in {1, 2} /\ digits(parts[1])
        /\ \A k \in 2..Len(parts) : Len(parts[k]) = 2 /\ digits(parts[k])

----------------------------------------------------------------------------
(* schemas.ts: timestampsOutputSchema *)

\* The seconds of a time, as the distribution refinement computes them:
\* t.time.split(":").map((p) => parseInt(p)), then MM:SS or HH:MM:SS.
\* (Only applied to times whose fields are digits.)
TimeToSeconds(t) ==
    LET parts == SplitColon(t)
        n(k) == ParseInt(parts[k]).value
    IN  IF Len(parts) = 2 THEN n(1) * 60 + n(2)
        ELSE IF Len(parts) = 3 THEN n(1) * 3600 + n(2) * 60 + n(3)
        ELSE 0

\* The object schema under the refinements: timestamps is a non-empty array
\* of timestampSchema, requestedCount an integer of 3..25, actualCount an
\* integer of at least 1.
BaseSchemaOk(data) ==
    /\ Len(data.timestamps) >= 1
    /\ \A k \in 1..Len(data.timestamps) :
          /\ MatchesTimeSchema(data.timestamps[k].time)
          /\ Len(data.timestamps[k].description) \in 1..100
    /\ data.requestedCount >= 3 /\ data.requestedCount <= 25
    /\ data.actualCount >= 1

\* First refinement: actualCount is the array length.
ActualCountRefine(data) == data.actualCount = Len(data.timestamps)

\* Second refinement: new Set(times).size = times.length, on the strings.
UniqueRefine(data) ==
    \A i, j \in 1..Len(data.timestamps) :
        i # j => data.timestamps[i].time # data.timestamps[j].time

\* Third refinement: the array length is requestedCount.
ExactCountRefine(data) == Len(data.timestamps) = data.requestedCount

\* times.filter((t) => t <= maxTime * 0.2).length ; 5 * t <= maxTime decides
\* the same as the double product, which is never below the exact one.
ClusteredCount(times) ==
    LET maxTime == CHOOSE m \in {times[k] : k \in 1..Len(times)} :
                       \A k \in 1..Len(times) : times[k] <= m
    IN  Cardinality({k \in 1..Len(times) : 5 * times[k] <= maxTime})

\* Fourth refinement: with three or more timestamps, fewer than length - 1
\* of them are within the first fifth of the latest one.
DistributionRefine(data) ==
    IF Len(data.timestamps) >= 3
    THEN LET times == [k \in 1..Len(data.timestamps) |->
                          TimeToSeconds(data.timestamps[k].time)]
         IN  ~(ClusteredCount(times) >= Len(data.timestamps) - 1)
    ELSE TRUE

\* timestampsOutputSchema.safeParse(data): zod runs every refinement on an
\* object of the right types and succeeds when there is no issue at all.
TimestampsOutputSchema(data) ==
    LET base == BaseSchemaOk(data)
        actualCountOk == ActualCountRefine(data)
        uniqueOk == UniqueRefine(data)
        exactCountOk == ExactCountRefine(data)
        distributionOk == DistributionRefine(data)
    IN  [ base |-> base,
          actualCountOk |-> actualCountOk,
          uniqueOk |-> uniqueOk,
          exactCountOk |-> exactCountOk,
          distributionOk |-> distributionOk,
          success |-> base /\ actualCountOk /\ uniqueOk /\ exactCountOk
                           /\ distributionOk ]

----------------------------------------------------------------------------
(* chunk-processor.ts *)

DEFAULT_CHUNKING_OPTIONS ==
    [ targetDurationMinutes |-> 6,
      maxDurationMinutes |-> 8,
      minDurationMinutes |-> 4,
      overlapSeconds |-> 30,
      respectNaturalBreaks |-> TRUE,
      prioritizeIntroOutro |-> TRUE ]

\* topicChangeIndicators of findNearestBreakPoint
ChunkTopicIndicators ==
    { <<"n","o","w">>, <<"n","e","x","t">>, <<"s","o">>, <<"o","k","a","y">>,
      <<"a","l","r","i","g","h","t">>, <<"m","o","v","i","n","g"," ","o","n">>,
      <<"l","e","t","'","s">>, <<"a","n","o","t","h","e","r">>,
      <<"d","i","f","f","e","r","e","n","t">>, <<"c","h","a","n","g","e">>,
      <<"s","w","i","t","c","h">>, <<"t","u","r","n"," ","t","o">>,
      <<"l","o","o","k"," ","a","t">>,
      <<"s","p","e","a","k","i","n","g"," ","o","f">> }

\* currentText.match(/[.!?]$/)
EndsSentence(text) == Len(text) > 0 /\ text[Len(text)] \in {".", "!", "?"}

\* The score of position i in findNearestBreakPoint, times 10 * searchRange
\* (searchRange > 0, in seconds), and the reason recorded for it.
BreakBase(ents, i) ==
    LET pause == SrtTimeToMs(At(ents, i + 1).startTime) - SrtTimeToMs(At(ents, i).endTime)
        cue == \E ind \in ChunkTopicIndicators :
                   Includes(ToLowerCase(At(ents, i + 1).text), ind)
        pauseScore == IF pause >= 3000 THEN 6 ELSE IF pause >= 1500 THEN 3 ELSE 0
        pauseReason == IF pause >= 3000 THEN "long_pause"
                       ELSE IF pause >= 1500 THEN "section_break" ELSE "long_pause"
    IN  [ base |-> pauseScore + (IF cue THEN 4 ELSE 0)
                   + (IF EndsSentence(ToLowerCase(At(ents, i).text)) THEN 2 ELSE 0),
          reason |-> IF cue THEN "topic_change" ELSE pauseReason ]

BreakScore(ents, i, currentIndex, searchRange) ==
    LET d == IF i >= currentIndex THEN i - currentIndex ELSE currentIndex - i
    IN  BreakBase(ents, i).base * searchRange - 2 * d

\* The loop of findNearestBreakPoint from position i on; best is the best
\* break point so far, or [index |-> -1] for null.
RECURSIVE BreakScan(_, _, _, _, _, _)
BreakScan(ents, i, searchEnd, currentIndex, searchRange, best) ==
    IF i > searchEnd \/ i >= Len(ents) - 1 THEN best
    ELSE LET sc == BreakScore(ents, i, currentIndex, searchRange)
             better == sc > 4 * searchRange /\ (best.index = -1 \/ sc > best.score)
         IN  BreakScan(ents, i + 1, searchEnd, currentIndex, searchRange,
                       IF better
                       THEN [index |-> i, reason |-> BreakBase(ents, i).reason, score |-> sc]
                       ELSE best)

\* findNearestBreakPoint; searchRange in seconds.  With searchRange = 0 the
\* penalty is NaN or Infinity and no comparison succeeds; with a negative
\* range the window is empty or every score is compared as the code does.
FindNearestBreakPoint(ents, currentIndex, startIndex, searchRange) ==
    LET half == searchRange \div 2
        searchStart == Max(startIndex, currentIndex - half)
        searchEnd == Min(Len(ents) - 1, currentIndex + half)
        null == [index |-> -1, reason |-> "none", score |-> 0]
    IN  IF searchRange <= 0 THEN null
        ELSE BreakScan(ents, searchStart, searchEnd, currentIndex, searchRange, null)

\* The for loop of createSingleChunk (lines 122-156) from position i on:
\* the end index, the value left in currentDuration, and the break reason.
RECURSIVE FindChunkEnd(_, _, _, _)
FindChunkEnd(ents, startIndex, i, opts) ==
    LET startMs == SrtTimeToMs(At(ents, startIndex).startTime)
        targetMs == opts.targetDurationMinutes * 60000
        maxMs == opts.maxDurationMinutes * 60000
        currentDuration == SrtTimeToMs(At(ents, i).endTime) - startMs
        bp == FindNearestBreakPoint(ents, i, startIndex,
                  (opts.maxDurationMinutes - opts.targetDurationMinutes) * 60)
    IN  IF currentDuration >= targetMs
        THEN IF opts.respectNaturalBreaks /\ bp.index # -1
             THEN [endIndex |-> bp.index, currentDuration |-> currentDuration,
                   reason |-> bp.reason]
             ELSE IF currentDuration <= maxMs
             THEN [endIndex |-> i, currentDuration |-> currentDuration, reason |-> "none"]
             ELSE [endIndex |-> Max(startIndex, i - 1),
                   currentDuration |-> currentDuration, reason |-> "none"]
        ELSE IF i + 1 < Len(ents)
             THEN FindChunkEnd(ents, startIndex, i + 1, opts)
             ELSE [endIndex |-> i, currentDuration |-> currentDuration, reason |-> "none"]

\* Lines 158-166: the minimum-duration extension of the end index.
EnsureMinimum(ents, startIndex, found, opts) ==
    LET minMs == opts.minDurationMinutes * 60000
        remainingEntries == Len(ents) - startIndex
        minEndIndex == Min(Len(ents) - 1,
                           startIndex + (remainingEntries * opts.minDurationMinutes)
                                            \div opts.targetDurationMinutes)
    IN  IF found.currentDuration < minMs /\ found.endIndex < Len(ents) - 1
        THEN Max(found.endIndex, minEndIndex)
        ELSE found.endIndex

\* Math.round((actualDuration / 60) * 10) / 10, held in tenths of a minute.
DurationTenths(ms) == (ms + 3000) \div 6000

RECURSIVE SumWords(_)
SumWords(es) ==
    IF es = <<>> THEN 0 ELSE SplitWsCount(Head(es).text) + SumWords(Tail(es))

\* createSingleChunk; startIndex is in range.
CreateSingleChunk(ents, startIndex, id, opts) ==
    LET found == FindChunkEnd(ents, startIndex, startIndex, opts)
        endIndex == EnsureMinimum(ents, startIndex, found, opts)
        chunkEntries == Slice(ents, startIndex, endIndex + 1)
        startMs == SrtTimeToMs(At(ents, startIndex).startTime)
        endMs == SrtTimeToMs(chunkEntries[Len(chunkEntries)].endTime)
    IN  [ id |-> id,
          startTime |-> At(ents, startIndex).startTime,
          endTime |-> chunkEntries[Len(chunkEntries)].endTime,
          startSeconds |-> startMs,
          endSeconds |-> endMs,
          durationMinutes |-> DurationTenths(endMs - startMs),
          entries |-> chunkEntries,
          entryCount |-> Len(chunkEntries),
          wordCount |-> SumWords(chunkEntries),
          breakPointReason |-> found.reason,
          isIntro |-> (id = 1),
          isOutro |-> (endIndex >= Len(ents) - 1),
          hasNaturalBreak |-> (found.reason # "none"),
          startIndex |-> startIndex ]   \* model bookkeeping: where the chunk began

\* The backward walk of calculateNextChunkStart from position i (lines 307-314).
\* allEntries[i] with i >= length is undefined and reading its startTime throws.
RECURSIVE OverlapWalk(_, _, _, _)
OverlapWalk(allEntries, i, overlapStartMs, lastEntryIndex) ==
    IF i < 0 THEN [threw |-> FALSE, value |-> Max(0, lastEntryIndex)]
    ELSE IF i >= Len(allEntries) THEN [threw |-> TRUE, value |-> 0]
    ELSE IF SrtTimeToMs(At(allEntries, i).startTime) <= overlapStartMs
         THEN [threw |-> FALSE, value |-> Max(0, i)]
         ELSE OverlapWalk(allEntries, i - 1, overlapStartMs, lastEntryIndex)

\* calculateNextChunkStart
CalculateNextChunkStart(currentChunk, allEntries, opts) ==
    LET lastEntryIndex == currentChunk.entries[Len(currentChunk.entries)].id - 1
    IN  IF opts.overlapSeconds = 0
        THEN [threw |-> FALSE, value |-> lastEntryIndex + 1]
        ELSE OverlapWalk(allEntries, lastEntryIndex,
                         currentChunk.endSeconds - opts.overlapSeconds * 1000,
                         lastEntryIndex)

\* Lines 91-94: the safety check after calculateNextChunkStart.
SafetyAdvance(next, chunk) ==
    IF next <= chunk.entries[Len(chunk.entries)].id THEN next + 1 ELSE next

\* postProcessChunks, the intro/outro part (confidence is not modelled).
PostProcessChunks(cs, strat) ==
    IF cs = <<>> THEN cs
    ELSE IF strat \in {"complex", "enterprise"}
    THEN [k \in 1..Len(cs) |->
            [cs[k] EXCEPT !.isIntro = IF k = 1 THEN TRUE ELSE @,
                          !.isOutro = IF k = Len(cs) THEN TRUE ELSE @]]
    ELSE cs

----------------------------------------------------------------------------
(* srt-parser.ts: findNaturalBreakPoints *)

\* topicChangeIndicators of findNaturalBreakPoints
TopicChangeIndicators ==
    { <<"n","o","w">>, <<"n","e","x","t">>, <<"s","o">>, <<"o","k","a","y">>,
      <<"a","l","r","i","g","h","t">>, <<"m","o","v","i","n","g"," ","o","n">>,
      <<"l","e","t","'","s">>, <<"a","n","o","t","h","e","r">>,
      <<"d","i","f","f","e","r","e","n","t">>, <<"c","h","a","n","g","e">>,
      <<"s","w","i","t","c","h">>, <<"t","u","r","n"," ","t","o">>,
      <<"l","o","o","k"," ","a","t">> }

\* nextStartSeconds - currentEndSeconds for the pair (i, i + 1), in ms.
PauseMs(ents, i) ==
    SrtTimeToMs(At(ents, i + 1).startTime) - SrtTimeToMs(At(ents, i).endTime)

\* The topic cue: some indicator is at the start of, or inside, nextText.
TopicCue(ents, i) ==
    \E indicator \in TopicChangeIndicators :
        Includes(ToLowerCase(At(ents, i + 1).text), indicator)

\* The section-break signal: a pause of 1.5 s or more after a text ending
\* in ".", "?" or "!".
SectionBreak(ents, i) ==
    LET currentText == ToLowerCase(At(ents, i).text)
    IN  /\ PauseMs(ents, i) >= 1500
        /\ Len(currentText) > 0
        /\ currentText[Len(currentText)] \in {".", "?", "!"}

\* One iteration of the loop for the pair (i, i + 1): the confidence (in
\* tenths) and the reason after the three tests, each of which assigns reason.
BreakCandidate(ents, i) ==
    LET longPause == PauseMs(ents, i) >= 3000
        topic == TopicCue(ents, i)
        section == SectionBreak(ents, i)
        confidence == (IF longPause THEN 4 ELSE 0) + (IF topic THEN 3 ELSE 0)
                        + (IF section THEN 2 ELSE 0)
        reason == IF section THEN "section_break"
                  ELSE IF topic THEN "topic_change"
                  ELSE "long_pause"
    IN  [ entryIndex |-> i + 1,
          timestamp |-> At(ents, i + 1).startTime,
          timestampSeconds |-> SrtTimeToMs(At(ents, i + 1).startTime),
          confidence |-> Min(confidence, 10),
          reason |-> reason,
          kept |-> confidence >= 3 ]

\* breakPoints after the loop has run over the pairs i .. entries.length - 2.
RECURSIVE CollectBreakPoints(_, _)
CollectBreakPoints(ents, i) ==
    IF i >= Len(ents) - 1 THEN <<>>
    ELSE LET c == BreakCandidate(ents, i)
             bp == [ entryIndex |-> c.entryIndex, timestamp |-> c.timestamp,
                     timestampSeconds |-> c.timestampSeconds,
                     confidence |-> c.confidence, reason |-> c.reason ]
         IN  (IF c.kept THEN <<bp>> ELSE <<>>) \o CollectBreakPoints(ents, i + 1)

\* Insertion of bp behind every element that does not sort after it.
RECURSIVE InsertByConfidence(_, _)
InsertByConfidence(sorted, bp) ==
    IF sorted = <<>> THEN <<bp>>
    ELSE IF Head(sorted).confidence >= bp.confidence
         THEN <<Head(sorted)>> \o InsertByConfidence(Tail(sorted), bp)
         ELSE <<bp>> \o sorted

\* A sort that leaves the list as it is.
KeepOrder(bps) == bps

\* breakPoints.sort((a, b) => b.confidence - a.confidence), a stable sort.
RECURSIVE SortByConfidence(_)
SortByConfidence(bps) ==
    IF bps = <<>> THEN <<>>
    ELSE InsertByConfidence(SortByConfidence(SubSeq(bps, 1, Len(bps) - 1)),
                            bps[Len(bps)])

\* findNaturalBreakPoints
FindNaturalBreakPoints(ents) ==
    IF Len(ents) < 2 THEN <<>>
    ELSE SortByConfidence(CollectBreakPoints(ents, 0))

----------------------------------------------------------------------------
(* srt-parser.ts: getVideoDuration and getVideoMetadata *)

\* maxEndTime of getVideoDuration, in ms.
RECURSIVE MaxEndTimeMs(_)
MaxEndTimeMs(ents) ==
    IF ents = <<>> THEN 0
    ELSE Max(SrtTimeToMs(Head(ents).endTime), MaxEndTimeMs(Tail(ents)))

\* getVideoDuration: Math.ceil(maxEndTime / 60), in minutes.
GetVideoDuration(ents) ==
    IF Len(ents) = 0 THEN 0
    ELSE (MaxEndTimeMs(ents) + 59999) \div 60000

\* totalEntryDuration after the loop, in ms.
RECURSIVE TotalEntryDurationMs(_)
TotalEntryDurationMs(ents) ==
    IF ents = <<>> THEN 0
    ELSE SrtTimeToMs(Head(ents).endTime) - SrtTimeToMs(Head(ents).startTime)
            + TotalEntryDurationMs(Tail(ents))

\* longPauseCount after the loop: the pairs whose pause is above 3 s.
LongPauseCount(ents) ==
    Cardinality({i \in 0..(Len(ents) - 2) : PauseMs(ents, i) > 3000})

\* totalWords
RECURSIVE TotalWords(_)
TotalWords(ents) ==
    IF ents = <<>> THEN 0
    ELSE SplitWsCount(Head(ents).text) + TotalWords(Tail(ents))

\* Math.round(a / b) for a >= 0, b > 0
RoundDiv(a, b) == (2 * a + b) \div (2 * b)

\* getVideoMetadata; durationSeconds is a whole number of seconds,
\* averageEntryDuration the fraction num / den of milliseconds.
GetVideoMetadata(ents) ==
    IF Len(ents) = 0
    THEN [ durationMinutes |-> 0, durationSeconds |-> 0, totalEntries |-> 0,
           averageEntryDuration |-> [num |-> 0, den |-> 1],
           estimatedWordsPerMinute |-> 0, hasLongPauses |-> FALSE,
           contentDensity |-> "low", videoCategory |-> "short" ]
    ELSE LET durationSeconds == GetVideoDuration(ents) * 60
             durationMinutes == durationSeconds \div 60
             estimatedWordsPerMinute ==
                 IF durationMinutes > 0
                 THEN RoundDiv(TotalWords(ents), durationMinutes)
                 ELSE 0
         IN  [ durationMinutes |-> durationMinutes,
               durationSeconds |-> durationSeconds,
               totalEntries |-> Len(ents),
               averageEntryDuration |->
                   [num |-> TotalEntryDurationMs(ents), den |-> Len(ents)],
               estimatedWordsPerMinute |-> estimatedWordsPerMinute,
               \* longPauseCount > entries.length * 0.1
               hasLongPauses |-> 10 * LongPauseCount(ents) > Len(ents),
               contentDensity |->
                   IF estimatedWordsPerMinute < 120 THEN "low"
                   ELSE IF estimatedWordsPerMinute > 180 THEN "high"
                   ELSE "medium",
               videoCategory |->
                   IF durationMinutes > 180 THEN "very_long"
                   ELSE IF durationMinutes > 90 THEN "long"
                   ELSE IF durationMinutes > 30 THEN "medium"
                   ELSE "short" ]

----------------------------------------------------------------------------
(* video-analyzer.ts *)

\* A count that is one per 12 minutes above two hours, without the cap.
CalculateOptimalTimestampsUncapped(minutes) ==
    IF minutes <= 30 THEN 5
    ELSE IF minutes <= 60 THEN 7
    ELSE IF minutes <= 90 THEN 9
    ELSE IF minutes <= 120 THEN 10
    ELSE minutes \div 12

\* calculateOptimalTimestamps
CalculateOptimalTimestamps(minutes) ==
    IF minutes <= 30 THEN 5
    ELSE IF minutes <= 60 THEN 7
    ELSE IF minutes <= 90 THEN 9
    ELSE IF minutes <= 120 THEN 10
    ELSE Min(12, minutes \div 12)

\* categorizeVideoLength
CategorizeVideoLength(minutes) ==
    IF minutes <= 30 THEN "short"
    ELSE IF minutes <= 90 THEN "medium"
    ELSE IF minutes <= 180 THEN "long"
    ELSE "very_long"

\* calculateChunkCount: Math.max(2, Math.min(20, Math.ceil(minutes / 6)))
CalculateChunkCount(minutes) == Max(2, Min(20, (minutes + 5) \div 6))

\* analyzeContentDensity: complexityScore in thousandths,
\* min(1, (wpm / 200) * 0.4 + pauseFrequency * 0.3 + topicChangeFrequency * 0.3)
ComplexityScore(meta) ==
    LET pauseFrequency == IF meta.hasLongPauses THEN 8 ELSE 3
        topicChangeFrequency ==
            IF meta.contentDensity = "low" THEN 3
            ELSE IF meta.contentDensity = "high" THEN 7
            ELSE 5
    IN  Min(1000, 2 * meta.estimatedWordsPerMinute + 30 * pauseFrequency
                    + 30 * topicChangeFrequency)

\* determineProcessingStrategy
DetermineProcessingStrategy(meta, complexityScore) ==
    IF meta.videoCategory = "short" /\ complexityScore < 400 THEN "simple"
    ELSE IF meta.videoCategory = "very_long" \/ complexityScore > 800 THEN "complex"
    ELSE IF meta.durationMinutes > 240 THEN "enterprise"
    ELSE "standard"

\* estimateProcessingTime:
\* Math.ceil(chunkCount * baseTimePerChunk + 10 + Math.max(5, chunkCount * 0.5))
EstimateProcessingTime(chunkCount, strat) ==
    LET baseTimePerChunk ==
            CASE strat = "simple" -> 3
              [] strat = "standard" -> 5
              [] strat = "complex" -> 8
              [] strat = "enterprise" -> 12
        halves == 2 * (chunkCount * baseTimePerChunk + 10) + Max(10, chunkCount)
    IN  (halves + 1) \div 2

\* determineQualityExpectation
DetermineQualityExpectation(strat, count) ==
    IF strat = "simple" /\ count <= 5 THEN "basic"
    ELSE IF strat = "enterprise" \/ count >= 10 THEN "premium"
    ELSE IF strat = "complex" THEN "excellent"
    ELSE "good"

\* analyzeVideoForProcessing
AnalyzeVideoForProcessing(meta) ==
    LET count == CalculateOptimalTimestamps(meta.durationMinutes)
        recommendedChunkCount == CalculateChunkCount(meta.durationMinutes)
        strat == DetermineProcessingStrategy(meta, ComplexityScore(meta))
    IN  [ optimalTimestampCount |-> count,
          recommendedChunkCount |-> recommendedChunkCount,
          \* Math.ceil(durationMinutes / recommendedChunkCount)
          chunkDurationMinutes |->
              (meta.durationMinutes + recommendedChunkCount - 1)
                  \div recommendedChunkCount,
          processingStrategy |-> strat,
          estimatedProcessingTime |->
              EstimateProcessingTime(recommendedChunkCount, strat),
          qualityExpectation |-> DetermineQualityExpectation(strat, count) ]

\* videoMetadataSchema
VideoMetadataSchema(meta) ==
    /\ meta.durationMinutes >= 1 /\ meta.durationMinutes <= 600
    /\ meta.durationSeconds >= 60 /\ meta.durationSeconds <= 36000
    /\ meta.totalEntries >= 1
    /\ meta.estimatedWordsPerMinute >= 0 /\ meta.estimatedWordsPerMinute <= 500
    /\ meta.hasLongPauses \in BOOLEAN
    /\ meta.contentDensity \in {"low", "medium", "high"}
    /\ meta.videoCategory \in {"short", "medium", "long", "very_long"}

\* videoAnalysisSchema
VideoAnalysisSchema(a) ==
    /\ a.optimalTimestampCount >= 3 /\ a.optimalTimestampCount <= 25
    /\ a.recommendedChunkCount >= 1 /\ a.recommendedChunkCount <= 30
    /\ a.chunkDurationMinutes >= 1 /\ a.chunkDurationMinutes <= 15
    /\ a.processingStrategy \in {"simple", "standard", "complex", "enterprise"}
    /\ a.estimatedProcessingTime >= 1 /\ a.estimatedProcessingTime <= 3600
    /\ a.qualityExpectation \in {"basic", "good", "excellent", "premium"}

----------------------------------------------------------------------------
(* Inputs of createTimeBasedChunks *)

\* A timestamp of the given millisecond count.
MsToSrtTime(ms) ==
    <<ms \div 3600000, (ms \div 60000) % 60, (ms \div 1000) % 60, ms % 1000>>

TextPlain == <<"o","k">>
TextCue == <<"S","o"," ","o","k",".">>

\* An entry shape: the pause before the entry, its duration (ms), its text.
EntryShapes ==
    { [pause |-> 0, dur |-> 20000, text |-> TextPlain],
      [pause |-> 0, dur |-> 300000, text |-> TextPlain],
      [pause |-> 0, dur |-> 600000, text |-> TextPlain],
      [pause |-> 3000, dur |-> 300000, text |-> TextPlain],
      [pause |-> 2000, dur |-> 20000, text |-> TextCue],
      [pause |-> 0, dur |-> 300000, text |-> TextCue] }

\* How the ids of a file are numbered; "file" is 1..n in file order.
IdOf(scheme, k, n) ==
    CASE scheme = "file" -> k
      [] scheme = "zero" -> k - 1
      [] scheme = "offset" -> k + 1
      [] scheme = "reversed" -> n + 1 - k
      [] scheme = "repeated" -> 1
      [] scheme = "negative" -> 0 - k

RECURSIVE StartOf(_, _)
StartOf(shapes, k) ==
    IF k = 1 THEN shapes[1].pause
    ELSE StartOf(shapes, k - 1) + shapes[k - 1].dur + shapes[k].pause

BuildEntries(shapes, scheme) ==
    [k \in 1..Len(shapes) |->
        [ id |-> IdOf(scheme, k, Len(shapes)),
          startTime |-> MsToSrtTime(StartOf(shapes, k)),
          endTime |-> MsToSrtTime(StartOf(shapes, k) + shapes[k].dur),
          text |-> shapes[k].text ]]

ShapeLists == UNION {[1..n -> EntryShapes] : n \in 0..MaxEntries}

NoOverlapOptions == [DEFAULT_CHUNKING_OPTIONS EXCEPT !.overlapSeconds = 0]
ShortOverlapOptions == [DEFAULT_CHUNKING_OPTIONS EXCEPT !.overlapSeconds = 10]
NoBreaksOptions == [DEFAULT_CHUNKING_OPTIONS EXCEPT !.respectNaturalBreaks = FALSE]

\* The (options, id numbering, processing strategy) triples the model runs.
ChunkRuns ==
    { <<DEFAULT_CHUNKING_OPTIONS, "file", "standard">>,
      <<DEFAULT_CHUNKING_OPTIONS, "file", "complex">>,
      <<NoOverlapOptions, "file", "standard">>,
      <<ShortOverlapOptions, "file", "simple">>,
      <<NoBreaksOptions, "file", "enterprise">>,
      <<DEFAULT_CHUNKING_OPTIONS, "zero", "standard">>,
      <<DEFAULT_CHUNKING_OPTIONS, "offset", "standard">>,
      <<DEFAULT_CHUNKING_OPTIONS, "reversed", "standard">>,
      <<DEFAULT_CHUNKING_OPTIONS, "repeated", "standard">>,
      <<NoOverlapOptions, "negative", "standard">> }

\* The chunker's variables while another component is under check.
ChunkIdle ==
    /\ entries = <<>>
    /\ options = DEFAULT_CHUNKING_OPTIONS
    /\ strategy = "standard"
    /\ currentChunkStart = 0
    /\ chunkId = 1
    /\ chunks = <<>>
    /\ pc = "idle"

\* The parser's variables while another component is under check.
ParseIdle ==
    /\ content = <<>>
    /\ srcEntries = <<>>
    /\ serialized = FALSE
    /\ parsed = <<>>
    /\ parsePc = "idle"

\* The normalizer's variables while another component is under check.
NormIdle ==
    /\ response = <<>>
    /\ isLongContent = FALSE
    /\ normalized = <<>>
    /\ normPc = "idle"

\* The output schema's variables while another component is under check.
OutputIdle ==
    /\ output = [timestamps |-> <<>>, requestedCount |-> 0, actualCount |-> 0]
    /\ validation = [success |-> FALSE]
    /\ validatePc = "idle"

\* findNaturalBreakPoints' variables while another component is under check.
BreakIdle ==
    /\ breakEntries = <<>>
    /\ breakPoints = <<>>
    /\ breakPc = "idle"

\* getVideoMetadata's variables while another component is under check.
MetaIdle ==
    /\ metaEntries = <<>>
    /\ metadata = [totalEntries |-> 0]
    /\ metaPc = "idle"

\* The analyzer's variables while another component is under check.
AnalyzeIdle ==
    /\ videoMinutes = 0
    /\ optimalTimestampCount = 0
    /\ analyzePc = "idle"

\* analyzeVideoForProcessing's variables while another component is under
\* check.
ProcessingIdle ==
    /\ videoMetadata = [durationMinutes |-> 0]
    /\ analysis = [optimalTimestampCount |-> 0]
    /\ processingPc = "idle"

\* The POST handler's variables while another component is under check.
RequestIdle ==
    /\ request = [contentLength |-> [present |-> FALSE, value |-> <<>>]]
    /\ schemaSource = "schemas.ts"
    /\ validated = [ok |-> FALSE, statusCode |-> 0]
    /\ thrown = "none"
    /\ extractCalls = 0
    /\ generateCalls = 0
    /\ responseStatus = 0
    /\ postPc = "idle"

\* withExponentialRetry's variables while another component is under check.
RetryIdle ==
    /\ config = [maxRetries |-> 0]
    /\ attempt = 0
    /\ lastError = "null"
    /\ events = <<>>
    /\ settled = "null"
    /\ retryPc = "idle"

\* validateChunks' variables while another component is under check.
CheckIdle ==
    /\ checkedChunks = <<>>
    /\ chunkValidation = [isValid |-> FALSE, errors |-> <<>>, warnings |-> <<>>]
    /\ checkPc = "idle"

----------------------------------------------------------------------------
(* createTimeBasedChunks as a state machine: one step per loop iteration *)

ChunkInit ==
    /\ \E shapes \in ShapeLists, run \in ChunkRuns :
          /\ entries = BuildEntries(shapes, run[2])
          /\ options = run[1]
          /\ strategy = run[3]
    /\ currentChunkStart = 0
    /\ chunkId = 1
    /\ chunks = <<>>
    /\ pc = "loop"
    /\ ParseIdle
    /\ NormIdle
    /\ OutputIdle
    /\ BreakIdle
    /\ MetaIdle
    /\ AnalyzeIdle
    /\ ProcessingIdle
    /\ RequestIdle
    /\ RetryIdle
    /\ CheckIdle

\* One iteration of the while loop (lines 74-95).
ChunkIteration ==
    /\ pc = "loop"
    /\ entries # <<>>
    /\ currentChunkStart < Len(entries)
    /\ Len(chunks) < MaxChunks
    /\ IF currentChunkStart < 0
       THEN \* entries[currentChunkStart] is undefined: startEntry.startTime throws
            /\ pc' = "threw"
            /\ UNCHANGED <<chunks, currentChunkStart, chunkId>>
       ELSE LET chunk == CreateSingleChunk(entries, currentChunkStart, chunkId, options)
                next == CalculateNextChunkStart(chunk, entries, options)
            IN  /\ chunks' = Append(chunks, chunk)
                /\ IF next.threw
                   THEN /\ pc' = "threw"
                        /\ UNCHANGED <<currentChunkStart, chunkId>>
                   ELSE /\ currentChunkStart' = SafetyAdvance(next.value, chunk)
                        /\ chunkId' = chunkId + 1
                        /\ pc' = "loop"
    /\ UNCHANGED <<entries, options, strategy>>
    /\ UNCHANGED <<parseVars, normVars, outputVars, breakVars, metaVars, analyzeVars, processingVars, requestVars, retryVars, checkVars>>

\* Line 64 (empty input) and line 98 (loop exit, post-processing, return).
ReturnChunks ==
    /\ pc = "loop"
    /\ entries = <<>> \/ currentChunkStart >= Len(entries)
    /\ chunks' = PostProcessChunks(chunks, strategy)
    /\ pc' = "done"
    /\ UNCHANGED <<entries, options, strategy, currentChunkStart, chunkId>>
    /\ UNCHANGED <<parseVars, normVars, outputVars, breakVars, metaVars, analyzeVars, processingVars, requestVars, retryVars, checkVars>>

ChunkNext == ChunkIteration \/ ReturnChunks

ChunkSpec == ChunkInit /\ [][ChunkNext]_vars

----------------------------------------------------------------------------
(* parseSrtContent: inputs and call *)

\* "00:00:01,000 --> 00:00:02,500"
PieceTime ==
    <<"0","0",":","0","0",":","0","1",",","0","0","0",
      " ","-","-",">"," ",
      "0","0",":","0","0",":","0","2",",","5","0","0">>

\* The pieces arbitrary input text is put together from: line ends, a blank
\* line, white space, an id line, a letter, a time line, and an id line with
\* its time line.
Pieces ==
    { <<"\n">>, <<"\r", "\n">>, <<"\n", "\n">>, <<" ">>, <<"7", "\n">>, <<"x">>,
      PieceTime, <<"1", "\n">> \o PieceTime \o <<"\n">> }

ArbitraryContents == {Concat(ps) : ps \in UNION {[1..n -> Pieces] : n \in 0..MaxPieces}}

\* Well-formed entries to serialize: the text is held as its lines.
SrcTimes ==
    { << <<"0","0",":","0","0",":","0","1",",","0","0","0">>,
         <<"0","0",":","0","0",":","0","2",",","5","0","0">> >>,
      << <<"0","1",":","0","2",":","0","3",",","0","0","4">>,
         <<"0","1",":","0","2",":","0","5",",","6","7","8">> >> }

SrcTexts ==
    { <<>>,                                   \* empty text, no text line
      << <<>> >>,                             \* empty text, one empty line
      << <<"x">> >>,
      << <<"x", " ", "y">>, <<"z">> >>,       \* two lines
      << <<" ", "x">> >> }                    \* a line with leading white space

SrcEntryValues ==
    { [id |-> i, startTime |-> t[1], endTime |-> t[2], lines |-> ls] :
        i \in {1, 7}, t \in SrcTimes, ls \in SrcTexts }

SrcEntryLists == UNION {[1..n -> SrcEntryValues] : n \in 1..MaxSrcEntries}

\* An entry as SRT text: id line, time line, text lines, separating blank line.
SerializeEntry(e) ==
    (IF e.id < 0 THEN <<"-">> \o NatToString(0 - e.id) ELSE NatToString(e.id))
    \o <<"\n">>
    \o e.startTime \o <<" ", "-", "-", ">", " ">> \o e.endTime \o <<"\n">>
    \o Concat([k \in 1..Len(e.lines) |-> e.lines[k] \o <<"\n">>])
    \o <<"\n">>

Serialize(es) == Concat([k \in 1..Len(es) |-> SerializeEntry(es[k])])

ParseInit ==
    /\ \/ /\ content \in ArbitraryContents
          /\ srcEntries = <<>>
          /\ serialized = FALSE
       \/ /\ srcEntries \in SrcEntryLists
          /\ content = Serialize(srcEntries)
          /\ serialized = TRUE
    /\ parsed = <<>>
    /\ parsePc = "call"
    /\ ChunkIdle
    /\ NormIdle
    /\ OutputIdle
    /\ BreakIdle
    /\ MetaIdle
    /\ AnalyzeIdle
    /\ ProcessingIdle
    /\ RequestIdle
    /\ RetryIdle
    /\ CheckIdle

\* The call parseSrtContent(content)
ParseCall ==
    /\ parsePc = "call"
    /\ parsed' = ParseSrtContent(content)
    /\ parsePc' = "returned"
    /\ UNCHANGED <<content, srcEntries, serialized>>
    /\ UNCHANGED <<chunkVars, normVars, outputVars, breakVars, metaVars, analyzeVars, processingVars, requestVars, retryVars, checkVars>>

ParseNext == ParseCall

ParseSpec == ParseInit /\ [][ParseNext]_vars

----------------------------------------------------------------------------
(* normalizeTimestampResponse: inputs and call *)

\* Times the output schema accepts: one or two digits, then two-digit fields.
SchemaTimes ==
    { first \o <<":">> \o second \o third :
        first \in { <<"0">>, <<"1">>, <<"0", "0">>, <<"1", "2">> },
        second \in { <<"0", "5">>, <<"3", "0">> },
        third \in { <<>>, <<":", "0", "0">>, <<":", "0", "7">> } }

\* Strings the output schema rejects: unpadded or non-numeric fields, a sign,
\* one part, four parts.
OtherTimes ==
    { <<"5", ":", "7">>, <<"a", ":", "b">>, <<"-", "5", ":", "0", "3">>,
      <<"9", "0">>, <<"1", ":", "2", ":", "3", ":", "4">>,
      <<"x", ":", "0", "5", ":", "7", "s">> }

TimeStrings == SchemaTimes \cup OtherTimes

Descriptions == { <<"I", "n", "t", "r", "o">> }

\* Every time with one description, and two times with another one.
MomentValues ==
    [time : TimeStrings, description : Descriptions]
    \cup [time : { <<"1", ":", "3", "0">>, <<"0", ":", "0", "5", ":", "0", "7">> },
          description : { <<"E", "n", "d">> }]

MomentLists == UNION {[1..n -> MomentValues] : n \in 1..MaxMoments}

NormInit ==
    /\ response \in MomentLists
    /\ isLongContent \in BOOLEAN
    /\ normalized = <<>>
    /\ normPc = "call"
    /\ ChunkIdle
    /\ ParseIdle
    /\ OutputIdle
    /\ BreakIdle
    /\ MetaIdle
    /\ AnalyzeIdle
    /\ ProcessingIdle
    /\ RequestIdle
    /\ RetryIdle
    /\ CheckIdle

\* The call normalizeTimestampResponse(response, isLongContent)
NormalizeCall ==
    /\ normPc = "call"
    /\ normalized' = NormalizeTimestampResponse(response, isLongContent)
    /\ normPc' = "returned"
    /\ UNCHANGED <<response, isLongContent>>
    /\ UNCHANGED <<chunkVars, parseVars, outputVars, breakVars, metaVars, analyzeVars, processingVars, requestVars, retryVars, checkVars>>

NormNext == NormalizeCall

NormSpec == NormInit /\ [][NormNext]_vars

----------------------------------------------------------------------------
(* timestampsOutputSchema.safeParse: inputs and call *)

\* Times the timestampSchema accepts; three of them are 90 seconds.
OutputTimes ==
    { <<"0", ":", "0", "0">>, <<"1", ":", "3", "0">>, <<"0", "1", ":", "3", "0">>,
      <<"0", ":", "0", "1", ":", "3", "0">>, <<"5", ":", "0", "0">>,
      <<"1", "0", ":", "0", "0">> }

OutputTimestampValues == [time : OutputTimes, description : Descriptions]

OutputTimestampLists ==
    UNION {[1..n -> OutputTimestampValues] : n \in 0..MaxTimestamps}

RequestedCounts == (MaxTimestamps - 1)..(MaxTimestamps + 1)

ValidateInit ==
    /\ \E ts \in OutputTimestampLists, requested \in RequestedCounts,
          extra \in {0, 1} :
            output = [ timestamps |-> ts,
                       requestedCount |-> requested,
                       actualCount |-> Len(ts) + extra ]
    /\ validation = [success |-> FALSE]
    /\ validatePc = "call"
    /\ ChunkIdle
    /\ ParseIdle
    /\ NormIdle
    /\ BreakIdle
    /\ MetaIdle
    /\ AnalyzeIdle
    /\ ProcessingIdle
    /\ RequestIdle
    /\ RetryIdle
    /\ CheckIdle

\* The call timestampsOutputSchema.safeParse(output)
ValidateCall ==
    /\ validatePc = "call"
    /\ validation' = TimestampsOutputSchema(output)
    /\ validatePc' = "returned"
    /\ UNCHANGED output
    /\ UNCHANGED <<chunkVars, parseVars, normVars, breakVars, metaVars, analyzeVars, processingVars, requestVars, retryVars, checkVars>>

ValidateNext == ValidateCall

ValidateSpec == ValidateInit /\ [][ValidateNext]_vars

----------------------------------------------------------------------------
(* findNaturalBreakPoints: inputs and call *)

\* Entry shapes: no pause, a pause of 1.5 s or of 3 s before the entry; a
\* text with or without a topic indicator, with or without a final stop.
BreakShapes ==
    [ pause : {0, 1500, 3000},
      dur : {1000},
      text : { <<"o","k">>, <<"o","k",".">>, <<"S","o">>, <<"S","o","!">> } ]

BreakShapeLists == UNION {[1..n -> BreakShapes] : n \in 0..MaxBreakEntries}

BreakInit ==
    /\ \E shapes \in BreakShapeLists : breakEntries = BuildEntries(shapes, "file")
    /\ breakPoints = <<>>
    /\ breakPc = "call"
    /\ ChunkIdle
    /\ ParseIdle
    /\ NormIdle
    /\ OutputIdle
    /\ MetaIdle
    /\ AnalyzeIdle
    /\ ProcessingIdle
    /\ RequestIdle
    /\ RetryIdle
    /\ CheckIdle

\* The call findNaturalBreakPoints(breakEntries)
BreakCall ==
    /\ breakPc = "call"
    /\ breakPoints' = FindNaturalBreakPoints(breakEntries)
    /\ breakPc' = "returned"
    /\ UNCHANGED breakEntries
    /\ UNCHANGED <<chunkVars, parseVars, normVars, outputVars, metaVars, analyzeVars, processingVars, requestVars, retryVars, checkVars>>

BreakNext == BreakCall

BreakSpec == BreakInit /\ [][BreakNext]_vars

----------------------------------------------------------------------------
(* getVideoMetadata: inputs and call *)

\* Entry shapes: 20 s of speech after a pause of exactly 3 s or of 4 s.
MetaShapes ==
    [ pause : {3000, 4000}, dur : {20000}, text : { <<"o","k">> } ]

MetaShapeLists == UNION {[1..n -> MetaShapes] : n \in 0..MaxMetaEntries}

\* The entries of a file in the order given.
Reverse(s) == [k \in 1..Len(s) |-> s[Len(s) + 1 - k]]

MetaInit ==
    /\ \E shapes \in MetaShapeLists, reversed \in BOOLEAN :
          metaEntries = IF reversed
                        THEN Reverse(BuildEntries(shapes, "file"))
                        ELSE BuildEntries(shapes, "file")
    /\ metadata = [totalEntries |-> 0]
    /\ metaPc = "call"
    /\ ChunkIdle
    /\ ParseIdle
    /\ NormIdle
    /\ OutputIdle
    /\ BreakIdle
    /\ AnalyzeIdle
    /\ ProcessingIdle
    /\ RequestIdle
    /\ RetryIdle
    /\ CheckIdle

\* The call getVideoMetadata(metaEntries)
MetaCall ==
    /\ metaPc = "call"
    /\ metadata' = GetVideoMetadata(metaEntries)
    /\ metaPc' = "returned"
    /\ UNCHANGED metaEntries
    /\ UNCHANGED <<chunkVars, parseVars, normVars, outputVars, breakVars, analyzeVars, processingVars, requestVars, retryVars, checkVars>>

MetaNext == MetaCall

MetaSpec == MetaInit /\ [][MetaNext]_vars

----------------------------------------------------------------------------
(* calculateOptimalTimestamps: inputs and call *)

AnalyzeInit ==
    /\ videoMinutes \in 0..MaxDurationMinutes
    /\ optimalTimestampCount = 0
    /\ analyzePc = "call"
    /\ ChunkIdle
    /\ ParseIdle
    /\ NormIdle
    /\ OutputIdle
    /\ BreakIdle
    /\ MetaIdle
    /\ ProcessingIdle
    /\ RequestIdle
    /\ RetryIdle
    /\ CheckIdle

\* The call calculateOptimalTimestamps(videoMinutes)
AnalyzeCall ==
    /\ analyzePc = "call"
    /\ optimalTimestampCount' = CalculateOptimalTimestamps(videoMinutes)
    /\ analyzePc' = "returned"
    /\ UNCHANGED videoMinutes
    /\ UNCHANGED <<chunkVars, parseVars, normVars, outputVars, breakVars, metaVars, processingVars, requestVars, retryVars, checkVars>>

AnalyzeNext == AnalyzeCall

AnalyzeSpec == AnalyzeInit /\ [][AnalyzeNext]_vars

----------------------------------------------------------------------------
(* analyzeVideoForProcessing: inputs and call *)

\* Words per minute that keep the complexity score off its thresholds.
MetadataWordRates == {0, 150, 500}

\* Metadata of whole minutes: every category and density with every
\* duration, among them the ones getVideoMetadata computes.
ProcessingInit ==
    /\ \E minutes \in 1..MaxMetadataMinutes, wpm \in MetadataWordRates,
          pauses \in BOOLEAN, density \in {"low", "medium", "high"},
          category \in {"short", "medium", "long", "very_long"} :
            videoMetadata =
                [ durationMinutes |-> minutes,
                  durationSeconds |-> minutes * 60,
                  totalEntries |-> 1,
                  averageEntryDuration |-> [num |-> minutes * 60000, den |-> 1],
                  estimatedWordsPerMinute |-> wpm,
                  hasLongPauses |-> pauses,
                  contentDensity |-> density,
                  videoCategory |-> category ]
    /\ analysis = [optimalTimestampCount |-> 0]
    /\ processingPc = "call"
    /\ ChunkIdle
    /\ ParseIdle
    /\ NormIdle
    /\ OutputIdle
    /\ BreakIdle
    /\ MetaIdle
    /\ AnalyzeIdle
    /\ RequestIdle
    /\ RetryIdle
    /\ CheckIdle

\* The call analyzeVideoForProcessing(videoMetadata)
ProcessingCall ==
    /\ processingPc = "call"
    /\ analysis' = AnalyzeVideoForProcessing(videoMetadata)
    /\ processingPc' = "returned"
    /\ UNCHANGED videoMetadata
    /\ UNCHANGED <<chunkVars, parseVars, normVars, outputVars, breakVars, metaVars, analyzeVars, requestVars, retryVars, checkVars>>

ProcessingNext == ProcessingCall

ProcessingSpec == ProcessingInit /\ [][ProcessingNext]_vars

----------------------------------------------------------------------------
(* POST /api/generate: request validation, processing and error handling *)

MAX_FILE_SIZE == 420 * 1024

\* A body field that is absent.
Undefined == [type |-> "undefined", length |-> 0, tenths |-> 0]

\* z.string().min(1).max(MAX_FILE_SIZE) on the field srtContent
SrtContentOk(field) ==
    /\ field.type = "string"
    /\ field.length >= 1
    /\ field.length <= MAX_FILE_SIZE

\* z.number().int().min(3).max(25) on a timestampCount that is present; the
\* number is held in tenths.
TimestampCountOk(field) ==
    /\ field.type = "number"
    /\ field.tenths % 10 = 0
    /\ field.tenths >= 3 * 10
    /\ field.tenths <= 25 * 10

\* generateApiRequestSchema.safeParse(body) with the schema of
\* src/lib/schemas.ts: an object of srtContent alone; other keys are dropped.
GenerateApiRequestSchema(body) ==
    IF body.isObject /\ SrtContentOk(body.srtContent)
    THEN [success |-> TRUE,
          data |-> [srtContent |-> body.srtContent, timestampCount |-> Undefined]]
    ELSE [success |-> FALSE,
          data |-> [srtContent |-> Undefined, timestampCount |-> Undefined]]

\* generateApiRequestSchema.safeParse(body) with the schema that also holds
\* timestampCount, default 8.
GenerateApiRequestSchemaWithCount(body) ==
    IF /\ body.isObject
       /\ SrtContentOk(body.srtContent)
       /\ body.timestampCount.type = "undefined" \/ TimestampCountOk(body.timestampCount)
    THEN [success |-> TRUE,
          data |-> [srtContent |-> body.srtContent,
                    timestampCount |->
                        IF body.timestampCount.type = "undefined"
                        THEN [type |-> "number", length |-> 0, tenths |-> 8 * 10]
                        ELSE body.timestampCount]]
    ELSE [success |-> FALSE,
          data |-> [srtContent |-> Undefined, timestampCount |-> Undefined]]

SafeParse(source, body) ==
    IF source = "schemas.ts"
    THEN GenerateApiRequestSchema(body)
    ELSE GenerateApiRequestSchemaWithCount(body)

\* contentLength && parseInt(contentLength) > MAX_FILE_SIZE
ContentLengthTooLarge(header) ==
    /\ header.present
    /\ Len(header.value) > 0
    /\ ~ParseInt(header.value).nan
    /\ ParseInt(header.value).value > MAX_FILE_SIZE

\* validateGenerateRequest(request): the data returned, or the statusCode of
\* the ValidationError thrown.
ValidateGenerateRequest(source, req) ==
    LET failed(status) ==
            [ok |-> FALSE, statusCode |-> status,
             data |-> [srtContent |-> Undefined, timestampCount |-> Undefined]]
        result == SafeParse(source, req.body)
    IN  IF ContentLengthTooLarge(req.contentLength) THEN failed(413)
        ELSE IF ~req.body.json THEN failed(400)
        ELSE IF ~result.success THEN failed(400)
        ELSE [ok |-> TRUE, statusCode |-> 0, data |-> result.data]

\* Control going on to step 2 whatever validateGenerateRequest did.
AfterValidationIgnored(outcome) == "validated"

\* Where control goes when validateGenerateRequest settles: on to step 2, or
\* to the catch clause when it threw.
AfterValidation(outcome) == IF outcome.ok THEN "validated" ELSE "caught"

\* ApiErrorHandler.handleGenerationError(error): the status of the response.
HandleGenerationError(error, outcome) ==
    IF error = "ValidationError" THEN outcome.statusCode
    ELSE IF error = "NoObjectGeneratedError" THEN 500
    ELSE 500

----------------------------------------------------------------------------
(* POST /api/generate: inputs and steps *)

\* Values of the content-length header, around MAX_FILE_SIZE.
ContentLengthHeaders ==
    { [present |-> FALSE, value |-> <<>>],
      [present |-> TRUE, value |-> <<>>],
      [present |-> TRUE, value |-> <<"a", "b", "c">>],
      [present |-> TRUE, value |-> <<"1", "0", "0">>],
      [present |-> TRUE, value |-> <<"4", "3", "0", "0", "8", "0">>],
      [present |-> TRUE, value |-> <<"4", "3", "0", "0", "8", "1">>] }

\* srtContent fields: absent, not a string, and strings around both limits.
SrtContentFields ==
    { Undefined, [type |-> "number", length |-> 0, tenths |-> 10] }
    \cup { [type |-> "string", length |-> n, tenths |-> 0] :
             n \in {0, 1, MAX_FILE_SIZE, MAX_FILE_SIZE + 1} }

\* timestampCount fields: absent, not a number, 3.5, and whole numbers
\* around both limits.
TimestampCountFields ==
    { Undefined, [type |-> "string", length |-> 1, tenths |-> 0] }
    \cup { [type |-> "number", length |-> 0, tenths |-> t] :
             t \in {20, 30, 35, 80, 250, 260, 300} }

\* Request bodies: text that is no JSON, JSON that is no object, and objects.
RequestBodies ==
    { [json |-> FALSE, isObject |-> FALSE, srtContent |-> Undefined,
       timestampCount |-> Undefined],
      [json |-> TRUE, isObject |-> FALSE, srtContent |-> Undefined,
       timestampCount |-> Undefined] }
    \cup { [json |-> TRUE, isObject |-> TRUE, srtContent |-> s, timestampCount |-> c] :
             s \in SrtContentFields, c \in TimestampCountFields }

RequestInit ==
    /\ \E header \in ContentLengthHeaders, body \in RequestBodies :
            request = [contentLength |-> header, body |-> body]
    /\ schemaSource \in {"schemas.ts", "part_009"}
    /\ validated = [ok |-> FALSE, statusCode |-> 0]
    /\ thrown = "none"
    /\ extractCalls = 0
    /\ generateCalls = 0
    /\ responseStatus = 0
    /\ postPc = "received"
    /\ ChunkIdle
    /\ ParseIdle
    /\ NormIdle
    /\ OutputIdle
    /\ BreakIdle
    /\ MetaIdle
    /\ AnalyzeIdle
    /\ ProcessingIdle
    /\ RetryIdle
    /\ CheckIdle

\* 1. const { srtContent } = await validateGenerateRequest(request)
ValidateRequest ==
    /\ postPc = "received"
    /\ validated' = ValidateGenerateRequest(schemaSource, request)
    /\ postPc' = AfterValidation(validated')
    /\ thrown' = IF validated'.ok THEN "none" ELSE "ValidationError"
    /\ UNCHANGED <<request, schemaSource, extractCalls, generateCalls, responseStatus>>
    /\ UNCHANGED <<chunkVars, parseVars, normVars, outputVars, breakVars, metaVars, analyzeVars, processingVars, retryVars, checkVars>>

\* 2. const metadata = SrtMetadataExtractor.extract(srtContent)
ExtractMetadata ==
    /\ postPc = "validated"
    /\ extractCalls' = extractCalls + 1
    /\ postPc' = "extracted"
    /\ UNCHANGED <<request, schemaSource, validated, thrown, generateCalls, responseStatus>>
    /\ UNCHANGED <<chunkVars, parseVars, normVars, outputVars, breakVars, metaVars, analyzeVars, processingVars, retryVars, checkVars>>

\* 3. await service.generateTimestamps({ srtContent, metadata }): it returns
\* the stream result or, its retries used up, throws the last error.
GenerateTimestamps ==
    /\ postPc = "extracted"
    /\ generateCalls' = generateCalls + 1
    /\ \E outcome \in {"none", "NoObjectGeneratedError", "Error"} :
        /\ thrown' = outcome
        /\ postPc' = IF outcome = "none" THEN "generated" ELSE "caught"
    /\ UNCHANGED <<request, schemaSource, validated, extractCalls, responseStatus>>
    /\ UNCHANGED <<chunkVars, parseVars, normVars, outputVars, breakVars, metaVars, analyzeVars, processingVars, retryVars, checkVars>>

\* 4. return result.toTextStreamResponse()
RespondStream ==
    /\ postPc = "generated"
    /\ responseStatus' = 200
    /\ postPc' = "responded"
    /\ UNCHANGED <<request, schemaSource, validated, thrown, extractCalls, generateCalls>>
    /\ UNCHANGED <<chunkVars, parseVars, normVars, outputVars, breakVars, metaVars, analyzeVars, processingVars, retryVars, checkVars>>

\* catch (error) { return ApiErrorHandler.handleGenerationError(error) }
RespondError ==
    /\ postPc = "caught"
    /\ responseStatus' = HandleGenerationError(thrown, validated)
    /\ postPc' = "responded"
    /\ UNCHANGED <<request, schemaSource, validated, thrown, extractCalls, generateCalls>>
    /\ UNCHANGED <<chunkVars, parseVars, normVars, outputVars, breakVars, metaVars, analyzeVars, processingVars, retryVars, checkVars>>

RequestNext ==
    \/ ValidateRequest
    \/ ExtractMetadata
    \/ GenerateTimestamps
    \/ RespondStream
    \/ RespondError

RequestSpec == RequestInit /\ [][RequestNext]_vars

----------------------------------------------------------------------------
(* withExponentialRetry as a state machine: one step per loop iteration *)

RECURSIVE Pow2(_)
Pow2(n) == IF n = 0 THEN 1 ELSE 2 * Pow2(n - 1)

\* A loop condition that allows one attempt more.
HasAttemptLeftInclusive(cfg, k) == k <= cfg.maxRetries

\* The for loop's condition: attempt < config.maxRetries
HasAttemptLeft(cfg, k) == k < cfg.maxRetries

\* A delay that grows by baseDelayMs per attempt.
DelayMsLinear(cfg, k) == cfg.baseDelayMs * (k + 1)

\* config.baseDelayMs * Math.pow(2, attempt)
DelayMs(cfg, k) == cfg.baseDelayMs * Pow2(k)

\* The Error objects the operation rejects with, and the value it resolves
\* to.
OperationErrors == {"Error A", "Error B"}
OperationValue == "result"

OperationEvent(k, outcome) ==
    [kind |-> "operation", attempt |-> k, outcome |-> outcome, delayMs |-> 0]
OnRetryEvent(k, error) ==
    [kind |-> "onRetry", attempt |-> k, outcome |-> error, delayMs |-> 0]
WaitEvent(k, ms) ==
    [kind |-> "wait", attempt |-> k, outcome |-> "null", delayMs |-> ms]

\* What the catch clause does after the operation rejected with error in
\* iteration k: the onRetry call if there is one, then the wait unless this
\* was the last attempt.
CatchEvents(cfg, k, error) ==
    (IF cfg.onRetry THEN <<OnRetryEvent(k + 1, error)>> ELSE <<>>)
    \o (IF k < cfg.maxRetries - 1 THEN <<WaitEvent(k + 1, DelayMs(cfg, k))>> ELSE <<>>)

RetryConfigs ==
    [maxRetries : 0..MaxRetryCount, baseDelayMs : {0, 500, 1000}, onRetry : BOOLEAN]

RetryInit ==
    /\ config \in RetryConfigs
    /\ attempt = 0
    /\ lastError = "null"
    /\ events = <<>>
    /\ settled = "null"
    /\ retryPc = "loop"
    /\ ChunkIdle
    /\ ParseIdle
    /\ NormIdle
    /\ OutputIdle
    /\ BreakIdle
    /\ MetaIdle
    /\ AnalyzeIdle
    /\ ProcessingIdle
    /\ RequestIdle
    /\ CheckIdle

\* One iteration in which operation() resolves: return await operation()
AttemptSucceeds ==
    /\ retryPc = "loop"
    /\ HasAttemptLeft(config, attempt)
    /\ events' = Append(events, OperationEvent(attempt + 1, OperationValue))
    /\ settled' = OperationValue
    /\ retryPc' = "returned"
    /\ UNCHANGED <<config, attempt, lastError>>
    /\ UNCHANGED <<chunkVars, parseVars, normVars, outputVars, breakVars, metaVars, analyzeVars, processingVars, requestVars, checkVars>>

\* One iteration in which operation() rejects: the catch clause, then
\* attempt++
AttemptFails ==
    /\ retryPc = "loop"
    /\ HasAttemptLeft(config, attempt)
    /\ \E error \in OperationErrors :
        /\ lastError' = error
        /\ events' = Append(events, OperationEvent(attempt + 1, error))
                        \o CatchEvents(config, attempt, error)
    /\ attempt' = attempt + 1
    /\ UNCHANGED <<config, settled, retryPc>>
    /\ UNCHANGED <<chunkVars, parseVars, normVars, outputVars, breakVars, metaVars, analyzeVars, processingVars, requestVars, checkVars>>

\* The loop is over: throw lastError || new Error("Failed after all retries")
ThrowLastError ==
    /\ retryPc = "loop"
    /\ ~HasAttemptLeft(config, attempt)
    /\ settled' = IF lastError /= "null" THEN lastError
                  ELSE "Error: Failed after all retries"
    /\ retryPc' = "rejected"
    /\ UNCHANGED <<config, attempt, lastError, events>>
    /\ UNCHANGED <<chunkVars, parseVars, normVars, outputVars, breakVars, metaVars, analyzeVars, processingVars, requestVars, checkVars>>

RetryNext ==
    \/ AttemptSucceeds
    \/ AttemptFails
    \/ ThrowLastError

RetrySpec == RetryInit /\ [][RetryNext]_vars

----------------------------------------------------------------------------
(* validateChunks.  A chunk is held by the fields the function reads:      *)
(* entryCount (entries.length), durationTenths (durationMinutes * 10),     *)
(* confidencePct (confidence * 100), wordCount and startSeconds.           *)

Finding(kind, index) == [kind |-> kind, chunk |-> index]

\* The errors and warnings the forEach callback pushes for one chunk.
ChunkErrors(chunk, index) ==
    IF chunk.entryCount = 0 THEN <<Finding("no_entries", index)>> ELSE <<>>

ChunkWarnings(chunk, index) ==
    (IF chunk.durationTenths < 1 * 10 THEN <<Finding("very_short", index)>> ELSE <<>>)
    \o (IF chunk.durationTenths > 10 * 10 THEN <<Finding("very_long", index)>> ELSE <<>>)
    \o (IF chunk.confidencePct < 30 THEN <<Finding("low_confidence", index)>> ELSE <<>>)
    \o (IF chunk.wordCount < 50 THEN <<Finding("low_word_count", index)>> ELSE <<>>)

RECURSIVE EachChunkErrors(_, _)
EachChunkErrors(list, i) ==
    IF i > Len(list) THEN <<>>
    ELSE ChunkErrors(list[i], i) \o EachChunkErrors(list, i + 1)

RECURSIVE EachChunkWarnings(_, _)
EachChunkWarnings(list, i) ==
    IF i > Len(list) THEN <<>>
    ELSE ChunkWarnings(list[i], i) \o EachChunkWarnings(list, i + 1)

\* The chronological-order loop: chunk i (0-based) starting at or before
\* chunk i - 1 is an error.
RECURSIVE OrderErrors(_, _)
OrderErrors(list, i) ==
    IF i > Len(list) THEN <<>>
    ELSE (IF list[i].startSeconds <= list[i - 1].startSeconds
          THEN <<Finding("not_after_previous", i)>> ELSE <<>>)
         \o OrderErrors(list, i + 1)

\* validateChunks(chunks)
ValidateChunks(list) ==
    IF Len(list) = 0
    THEN [isValid |-> FALSE, errors |-> <<Finding("no_chunks", 0)>>, warnings |-> <<>>]
    ELSE LET errors == EachChunkErrors(list, 1) \o OrderErrors(list, 2)
             warnings ==
                 (IF Len(list) > 30 THEN <<Finding("high_chunk_count", 0)>> ELSE <<>>)
                 \o EachChunkWarnings(list, 1)
         IN  [isValid |-> Len(errors) = 0, errors |-> errors, warnings |-> warnings]

----------------------------------------------------------------------------
(* validateChunks: inputs and call *)

\* Chunks on both sides of every threshold the function tests.
CheckedChunkShapes ==
    [ entryCount : {0, 1},
      durationTenths : {5, 50, 105},
      confidencePct : {20, 80},
      wordCount : {10, 100},
      startSeconds : {0, 300} ]

\* Thirty-one good chunks of five minutes, one after the other in time.
ManyChunks ==
    [i \in 1..31 |->
        [ entryCount |-> 1, durationTenths |-> 50, confidencePct |-> 80,
          wordCount |-> 100, startSeconds |-> (i - 1) * 300 ]]

CheckedChunkLists ==
    UNION { [1..n -> CheckedChunkShapes] : n \in 0..MaxCheckedChunks }
    \cup { ManyChunks }

CheckInit ==
    /\ checkedChunks \in CheckedChunkLists
    /\ chunkValidation = [isValid |-> FALSE, errors |-> <<>>, warnings |-> <<>>]
    /\ checkPc = "call"
    /\ ChunkIdle
    /\ ParseIdle
    /\ NormIdle
    /\ OutputIdle
    /\ BreakIdle
    /\ MetaIdle
    /\ AnalyzeIdle
    /\ ProcessingIdle
    /\ RequestIdle
    /\ RetryIdle

\* The call validateChunks(checkedChunks)
CheckCall ==
    /\ checkPc = "call"
    /\ chunkValidation' = ValidateChunks(checkedChunks)
    /\ checkPc' = "returned"
    /\ UNCHANGED checkedChunks
    /\ UNCHANGED <<chunkVars, parseVars, normVars, outputVars, breakVars, metaVars, analyzeVars, processingVars, requestVars, retryVars>>

CheckNext == CheckCall

CheckSpec == CheckInit /\ [][CheckNext]_vars

----------------------------------------------------------------------------
(* Properties of createTimeBasedChunks *)

\* The ids are 1..n in file order.
FileOrderIds == \A k \in 1..Len(entries) : entries[k].id = k

LastChunk == chunks[Len(chunks)]

\* The 0-based entry positions a chunk holds.
ChunkPositions(c) == c.startIndex .. (c.startIndex + c.entryCount - 1)

\* C1: with ids 1..n in file order, every iteration leaves the next start
\* index strictly above the start index of the chunk just built, and the
\* loop runs at most n times.
C1_LoopAdvances ==
    FileOrderIds =>
        /\ Len(chunks) <= Len(entries)
        /\ (pc = "loop" /\ chunks # <<>>) => currentChunkStart > LastChunk.startIndex

\* C2: every input entry lies in at least one returned chunk.
C2_EveryEntryCovered ==
    (pc = "done" /\ FileOrderIds) =>
        \A k \in 0..(Len(entries) - 1) :
            \E c \in 1..Len(chunks) : k \in ChunkPositions(chunks[c])

\* C3: chunk start times are strictly increasing at every point of the loop.
C3_StartsStrictlyIncrease ==
    FileOrderIds =>
        \A c \in 1..(Len(chunks) - 1) :
            chunks[c].startSeconds < chunks[c + 1].startSeconds

\* C4: with min <= target <= max, every returned chunk but the last lasts at
\* least minDurationMinutes and at most maxDurationMinutes.
C4_DurationWithinBounds ==
    ( /\ pc = "done"
      /\ FileOrderIds
      /\ options.minDurationMinutes <= options.targetDurationMinutes
      /\ options.targetDurationMinutes <= options.maxDurationMinutes ) =>
        \A c \in 1..(Len(chunks) - 1) :
            LET d == chunks[c].endSeconds - chunks[c].startSeconds
            IN  /\ d >= options.minDurationMinutes * 60000
                /\ d <= options.maxDurationMinutes * 60000

\* C5: createTimeBasedChunks never throws, whatever the ids are.
C5_NeverThrows == pc # "threw"

\* The span of the whole list: last end minus first start.
TotalSpanMs ==
    SrtTimeToMs(entries[Len(entries)].endTime) - SrtTimeToMs(entries[1].startTime)

\* C6: a non-empty list whose span is below the target duration gives, with
\* the default options, exactly one chunk, holding every entry.
C6_ShortInputOneChunk ==
    ( /\ entries # <<>>
      /\ FileOrderIds
      /\ options = DEFAULT_CHUNKING_OPTIONS
      /\ TotalSpanMs < options.targetDurationMinutes * 60000 ) =>
        /\ Len(chunks) <= 1
        /\ pc = "done" => (Len(chunks) = 1 /\ chunks[1].entries = entries)

\* C7: in a returned list isIntro marks the first chunk and no other, and
\* isOutro marks the last chunk and no other.
C7_IntroOutroFlags ==
    (pc = "done" /\ FileOrderIds) =>
        \A c \in 1..Len(chunks) :
            /\ chunks[c].isIntro = (c = 1)
            /\ chunks[c].isOutro = (c = Len(chunks))

----------------------------------------------------------------------------
(* Properties of parseSrtContent *)

\* The number of blank-line-separated blocks of a text: the maximal runs of
\* consecutive non-empty lines.
BlankLineBlocks(text) ==
    LET ls == SplitLines(text)
    IN  Cardinality({k \in 1..Len(ls) : ls[k] # <<>> /\ (k = 1 \/ ls[k - 1] = <<>>)})

\* No time line "HH:MM:SS,mmm --> HH:MM:SS,mmm" occurs anywhere in the text.
HasNoTimeLine(text) == \A p \in 1..Len(text) : ~TimeLineMatchesAt(text, p)

\* C8: parseSrtContent returns at most one entry per blank-line-separated
\* block of its input, and returns the empty list for an empty input and for
\* an input without any time line.
C8_ParseBounded ==
    parsePc = "returned" =>
        /\ Len(parsed) <= BlankLineBlocks(content)
        /\ (content = <<>> \/ HasNoTimeLine(content)) => parsed = <<>>

\* An input of two blocks, one malformed and one well formed, has been parsed.
C8_Witness ==
    /\ parsePc = "returned"
    /\ ~serialized
    /\ BlankLineBlocks(content) = 2
    /\ Len(parsed) = 1

\* The text lines joined by single spaces.
SpaceJoined(lines) ==
    Concat([k \in 1..Len(lines) |-> IF k = 1 THEN lines[k] ELSE <<" ">> \o lines[k]])

\* What the round trip is to give back for the serialized entries.
RoundTripExpected ==
    [k \in 1..Len(srcEntries) |->
        [ id |-> srcEntries[k].id,
          startTime |-> srcEntries[k].startTime,
          endTime |-> srcEntries[k].endTime,
          text |-> SpaceJoined(srcEntries[k].lines) ]]

\* C9 as stated: serialized entries, empty text included, parse back to the
\* same ids, times and space-joined texts in the same order.
C9_RoundTrip ==
    (parsePc = "returned" /\ serialized) => parsed = RoundTripExpected

\* A text that survives the round trip: at least one line, no line empty, no
\* white space at the start of the first line or at the end of the last.
TextKept(lines) ==
    /\ Len(lines) >= 1
    /\ \A k \in 1..Len(lines) : lines[k] # <<>>
    /\ ~IsSpace(lines[1][1])
    /\ ~IsSpace(lines[Len(lines)][Len(lines[Len(lines)])])

\* C9 amended: the round trip holds when every text has at least one line, no
\* empty line, and neither starts nor ends with white space.
C9_RoundTripNonEmptyText ==
    ( /\ parsePc = "returned"
      /\ serialized
      /\ \A k \in 1..Len(srcEntries) : TextKept(srcEntries[k].lines) ) =>
        parsed = RoundTripExpected

\* Two entries with unsorted, non-contiguous ids, one with a two-line text,
\* have gone through the round trip.
C9_Witness ==
    /\ parsePc = "returned"
    /\ serialized
    /\ Len(srcEntries) = 2
    /\ \A k \in 1..Len(srcEntries) : TextKept(srcEntries[k].lines)
    /\ srcEntries[1].id = 7 /\ srcEntries[2].id = 1
    /\ Len(srcEntries[1].lines) = 2
    /\ Len(parsed) = 2

----------------------------------------------------------------------------
(* Properties of normalizeTimestampResponse *)

\* Zero-padded MM:SS
IsPaddedMMSS(t) ==
    /\ Len(t) = 5
    /\ t[3] = ":"
    /\ \A k \in {1, 2, 4, 5} : IsDigit(t[k])

\* Zero-padded HH:MM:SS
IsPaddedHHMMSS(t) ==
    /\ Len(t) = 8
    /\ t[3] = ":" /\ t[6] = ":"
    /\ \A k \in {1, 2, 4, 5, 7, 8} : IsDigit(t[k])

\* C10: after normalization of a response whose times match the output
\* schema, every time is zero-padded MM:SS when isLongContent is false and
\* zero-padded HH:MM:SS when it is true.
C10_OneFormat ==
    ( /\ normPc = "returned"
      /\ \A k \in 1..Len(response) : MatchesTimeSchema(response[k].time) ) =>
        \A k \in 1..Len(normalized) :
            IF isLongContent
            THEN IsPaddedHHMMSS(normalized[k].time)
            ELSE IsPaddedMMSS(normalized[k].time)

----------------------------------------------------------------------------
(* Properties of the key-moment list delivered to the caller *)

\* C13: the key-moment list delivered to the caller (the normalized list
\* that onFinish hands to the callback) is in chronological order: of every
\* adjacent pair the earlier entry has the smaller time value, whatever the
\* order of the moments in the response.
C13_Chronological ==
    ( /\ normPc = "returned"
      /\ \A k \in 1..Len(response) : MatchesTimeSchema(response[k].time) ) =>
        \A k \in 1..(Len(normalized) - 1) :
            TimeToSeconds(normalized[k].time) < TimeToSeconds(normalized[k + 1].time)

----------------------------------------------------------------------------
(* Properties of timestampsOutputSchema *)

\* The time values of the validated timestamps, in seconds.
OutputSeconds ==
    [k \in 1..Len(output.timestamps) |-> TimeToSeconds(output.timestamps[k].time)]

\* C12: a timestamp list the output schema accepts never contains two
\* entries that denote the same time value, whatever the textual form of
\* each (one- or two-digit leading field, MM:SS or HH:MM:SS).
C12_NoDuplicateTimes ==
    (validatePc = "returned" /\ validation.success) =>
        \A i, j \in 1..Len(output.timestamps) :
            i # j => OutputSeconds[i] # OutputSeconds[j]

\* C14: the distribution check rejects a selection of N timestamps exactly
\* when more than N - 1 of them, that is all of them, are within the first
\* 20% of the video (whose length is taken from the latest timestamp); a
\* selection with a timestamp beyond the first 20% is not rejected by it.
C14_DistributionCheck ==
    (validatePc = "returned" /\ validation.base) =>
        ( ~validation.distributionOk
            <=> ClusteredCount(OutputSeconds) > Len(output.timestamps) - 1 )

\* max(1, floor(0.2 * requestedCount))
CountTolerance(requested) == Max(1, requested \div 5)

\* C15: the output validation accepts a list whose length differs from
\* requestedCount by at most max(1, floor(0.2 * requestedCount)), provided
\* actualCount is the list length and the timestamps are unique and well
\* distributed.
C15_CountTolerance ==
    ( /\ validatePc = "returned"
      /\ validation.base
      /\ validation.actualCountOk
      /\ validation.uniqueOk
      /\ validation.distributionOk
      /\ Len(output.timestamps) - output.requestedCount <= CountTolerance(output.requestedCount)
      /\ output.requestedCount - Len(output.timestamps) <= CountTolerance(output.requestedCount) )
        => validation.success

----------------------------------------------------------------------------
(* Properties of findNaturalBreakPoints *)

\* C16: for every adjacent pair where the topic cue fires on the next
\* entry's text the reported reason is topic_change, also when the
\* section-break signal fires for the same pair; section_break is reported
\* only when the topic cue did not fire.
C16_TopicChangeWins ==
    breakPc = "returned" =>
        \A k \in 1..Len(breakPoints) :
            LET i == breakPoints[k].entryIndex - 1
            IN  /\ TopicCue(breakEntries, i) => breakPoints[k].reason = "topic_change"
                /\ breakPoints[k].reason = "section_break" => ~TopicCue(breakEntries, i)

\* The score of the pair (i, i + 1) in tenths: 0.4 for a pause of 3 s or
\* more, 0.3 for the topic cue, 0.2 for the section-break signal.
AccumulatedScore(ents, i) ==
    (IF PauseMs(ents, i) >= 3000 THEN 4 ELSE 0)
      + (IF TopicCue(ents, i) THEN 3 ELSE 0)
      + (IF SectionBreak(ents, i) THEN 2 ELSE 0)

\* C17: findNaturalBreakPoints returns exactly the adjacent-pair positions
\* whose accumulated score is at least 0.3, each once and with a confidence
\* between 0.3 and 1.0, and the returned list is ordered by non-increasing
\* confidence.
C17_RetainedAndSorted ==
    breakPc = "returned" =>
        LET retained == {i + 1 : i \in {j \in 0..(Len(breakEntries) - 2) :
                                          AccumulatedScore(breakEntries, j) >= 3}}
        IN  /\ {breakPoints[k].entryIndex : k \in 1..Len(breakPoints)} = retained
            /\ Len(breakPoints) = Cardinality(retained)
            /\ \A k \in 1..Len(breakPoints) :
                  /\ breakPoints[k].confidence >= 3
                  /\ breakPoints[k].confidence <= 10
            /\ \A k \in 1..(Len(breakPoints) - 1) :
                  breakPoints[k].confidence >= breakPoints[k + 1].confidence

\* Two retained positions that the sort had to exchange.
C17_Witness ==
    /\ breakPc = "returned"
    /\ Len(breakPoints) = 2
    /\ breakPoints[1].entryIndex > breakPoints[2].entryIndex
    /\ breakPoints[1].confidence > breakPoints[2].confidence

----------------------------------------------------------------------------
(* Properties of getVideoMetadata *)

\* The latest endTime over all entries, in ms.
LatestEndMs ==
    CHOOSE m \in {SrtTimeToMs(metaEntries[k].endTime) : k \in 1..Len(metaEntries)} :
        \A k \in 1..Len(metaEntries) : SrtTimeToMs(metaEntries[k].endTime) <= m

\* C18: for every non-empty entry list, durationSeconds of the metadata is
\* the maximum endTime in seconds over all entries (no sum of durations, no
\* value rounded to another unit).
C18_DurationIsLatestEnd ==
    (metaPc = "returned" /\ Len(metaEntries) > 0) =>
        metadata.durationSeconds * 1000 = LatestEndMs

\* The adjacent-entry gaps (next start minus current end) above 3 s.
LongGaps ==
    {k \in 1..(Len(metaEntries) - 1) :
        SrtTimeToMs(metaEntries[k + 1].startTime)
            - SrtTimeToMs(metaEntries[k].endTime) > 3000}

\* C19: hasLongPauses is true exactly when the number of adjacent-entry
\* gaps above the 3-second threshold is more than 10% of the number of
\* adjacent-entry gaps, entries.length - 1.
C19_HasLongPauses ==
    (metaPc = "returned" /\ Len(metaEntries) > 0) =>
        ( metadata.hasLongPauses
            <=> 10 * Cardinality(LongGaps) > Len(metaEntries) - 1 )

----------------------------------------------------------------------------
(* Properties of calculateOptimalTimestamps *)

\* The step function of the specification.
StepCount(minutes) ==
    CASE minutes <= 30 -> 5
      [] minutes > 30 /\ minutes <= 60 -> 7
      [] minutes > 60 /\ minutes <= 90 -> 9
      [] minutes > 90 /\ minutes <= 120 -> 10
      [] minutes > 120 -> IF minutes \div 12 < 12 THEN minutes \div 12 ELSE 12

\* The step function and its bounds, without the 65-minute example.
StepFunctionHolds ==
    /\ optimalTimestampCount = StepCount(videoMinutes)
    /\ optimalTimestampCount >= 5
    /\ optimalTimestampCount <= 12
    /\ \A shorter \in 0..videoMinutes :
          CalculateOptimalTimestamps(shorter) <= optimalTimestampCount

\* C20: calculateOptimalTimestamps returns the step function (5 up to 30
\* minutes, 7 up to 60, 9 up to 90, 10 up to 120, min(12, floor(minutes/12))
\* above), a value from 5 to 12, no shorter duration gets a larger count,
\* and 65 minutes gives 7.
C20_StepFunction ==
    analyzePc = "returned" =>
        /\ StepFunctionHolds
        /\ videoMinutes = 65 => optimalTimestampCount = 7

\* C20 as amended: the same step function, bounds and monotonicity, and 65
\* minutes, being above 60 and at most 90, gives 9.
C20_StepFunctionAmended ==
    analyzePc = "returned" =>
        /\ StepFunctionHolds
        /\ videoMinutes = 65 => optimalTimestampCount = 9

\* The call for 65 minutes has returned.
C20_Witness ==
    /\ analyzePc = "returned"
    /\ videoMinutes = 65
    /\ optimalTimestampCount = 9

----------------------------------------------------------------------------
(* Properties of analyzeVideoForProcessing *)

\* videoCategory as getVideoMetadata derives it from durationMinutes.
CategoryOfMinutes(minutes) ==
    IF minutes > 180 THEN "very_long"
    ELSE IF minutes > 90 THEN "long"
    ELSE IF minutes > 30 THEN "medium"
    ELSE "short"

\* C21: for metadata as getVideoMetadata computes it (videoCategory
\* consistent with durationMinutes), the processing strategy is enterprise
\* whenever durationMinutes is greater than 240.
C21_EnterpriseAbove240 ==
    ( /\ processingPc = "returned"
      /\ videoMetadata.videoCategory = CategoryOfMinutes(videoMetadata.durationMinutes)
      /\ videoMetadata.durationMinutes > 240 ) =>
        analysis.processingStrategy = "enterprise"

\* C29: for every metadata value that videoMetadataSchema accepts the
\* analysis returned is accepted by videoAnalysisSchema.
C29_AnalysisInSchema ==
    (processingPc = "returned" /\ VideoMetadataSchema(videoMetadata)) =>
        VideoAnalysisSchema(analysis)

----------------------------------------------------------------------------
(* Properties of POST /api/generate *)

\* The request's body is a JSON object whose srtContent is a string longer
\* than MAX_FILE_SIZE.
OversizedSrtContent ==
    /\ request.body.json
    /\ request.body.isObject
    /\ request.body.srtContent.type = "string"
    /\ request.body.srtContent.length > MAX_FILE_SIZE

\* C22: a request whose SRT content is larger than MAX_FILE_SIZE is answered
\* with status 413, with or without a content-length header, and with no
\* other status.
C22_OversizedIs413 ==
    (postPc = "responded" /\ OversizedSrtContent) => responseStatus = 413

\* C23: metadata extraction and the generation call start only after
\* validation has succeeded, extraction before generation; when validation
\* fails, neither is ever invoked and the response carries the validation
\* error's status (400 or 413).
C23_ValidationFirst ==
    /\ postPc = "received" => (extractCalls = 0 /\ generateCalls = 0)
    /\ (extractCalls > 0 \/ generateCalls > 0) => validated.ok
    /\ generateCalls > 0 => extractCalls > 0
    /\ (postPc /= "received" /\ ~validated.ok) =>
            /\ extractCalls = 0
            /\ generateCalls = 0
            /\ validated.statusCode \in {400, 413}
            /\ postPc = "responded" => responseStatus = validated.statusCode

\* A request with an oversized content-length was answered 413 and nothing
\* was generated.
C23_Witness ==
    /\ postPc = "responded"
    /\ ContentLengthTooLarge(request.contentLength)
    /\ ~validated.ok
    /\ responseStatus = 413
    /\ generateCalls = 0

\* C25: a request that is otherwise valid is accepted exactly when its
\* timestampCount is absent or an integer from 3 to 25, and an absent
\* timestampCount is returned as 8.
C25_TimestampCountRange ==
    ( /\ postPc /= "received"
      /\ ~ContentLengthTooLarge(request.contentLength)
      /\ request.body.json
      /\ request.body.isObject
      /\ SrtContentOk(request.body.srtContent) ) =>
        /\ validated.ok <=>
              \/ request.body.timestampCount.type = "undefined"
              \/ TimestampCountOk(request.body.timestampCount)
        /\ (validated.ok /\ request.body.timestampCount.type = "undefined") =>
              validated.data.timestampCount =
                  [type |-> "number", length |-> 0, tenths |-> 80]

----------------------------------------------------------------------------
(* Properties of withExponentialRetry *)

\* The operation calls made so far, in order.
OperationCalls == SelectSeq(events, LAMBDA e : e.kind = "operation")

\* C26: the operation is invoked at most maxRetries times; a successful
\* attempt is the last one and its value is what is returned; when all
\* maxRetries attempts failed the function rejects with the error of the
\* last attempt.
C26_BoundedRetries ==
    LET calls == OperationCalls
        n == Len(calls)
    IN  /\ n <= config.maxRetries
        /\ \A i \in 1..n : calls[i].attempt = i
        /\ \A i \in 1..n :
              calls[i].outcome = OperationValue =>
                  /\ i = n
                  /\ events[Len(events)] = calls[i]
                  /\ retryPc = "returned"
                  /\ settled = OperationValue
        /\ retryPc = "returned" => (n >= 1 /\ calls[n].outcome = OperationValue)
        /\ retryPc = "rejected" =>
              /\ n = config.maxRetries
              /\ \A i \in 1..n : calls[i].outcome \in OperationErrors
              /\ n >= 1 => settled = calls[n].outcome

\* Two attempts failed with different errors, the third and last one too,
\* and the function rejected.
C26_Witness ==
    /\ retryPc = "rejected"
    /\ config.maxRetries = 3
    /\ Len(OperationCalls) = 3
    /\ OperationCalls[1].outcome /= OperationCalls[3].outcome
    /\ settled = OperationCalls[3].outcome

\* C28: after failed attempt k the next thing is the onRetry call with k
\* and the error (when an onRetry is given), once; then, unless k was the
\* last attempt, a wait of baseDelayMs * 2^(k-1) and after it attempt k+1;
\* after the last failed attempt there is no wait.
C28_RetryOrdering ==
    LET n == Len(events)
        failed(i) == events[i].kind = "operation" /\ events[i].outcome \in OperationErrors
        afterCallback(i) == IF config.onRetry THEN i + 1 ELSE i
    IN  /\ \A i \in 1..n : failed(i) =>
              LET k == events[i].attempt
                  j == afterCallback(i)
              IN  /\ config.onRetry =>
                        /\ i + 1 <= n
                        /\ events[i + 1] = OnRetryEvent(k, events[i].outcome)
                  /\ k < config.maxRetries =>
                        /\ j + 1 <= n
                        /\ events[j + 1] = WaitEvent(k, config.baseDelayMs * Pow2(k - 1))
                        /\ j + 2 <= n => events[j + 2].kind = "operation"
                                         /\ events[j + 2].attempt = k + 1
                  /\ k = config.maxRetries => j = n
        /\ \A i \in 1..n : events[i].kind = "onRetry" =>
              /\ config.onRetry
              /\ i > 1 /\ failed(i - 1) /\ events[i - 1].attempt = events[i].attempt
        /\ \A i \in 1..n : events[i].kind = "wait" =>
              LET p == IF config.onRetry THEN i - 2 ELSE i - 1
              IN  p >= 1 /\ failed(p) /\ events[p].attempt = events[i].attempt
        /\ (config.maxRetries = 3 /\ config.baseDelayMs = 1000 /\ retryPc = "rejected") =>
              SelectSeq(events, LAMBDA e : e.kind = "wait")
                  = <<WaitEvent(1, 1000), WaitEvent(2, 2000)>>

\* With an onRetry callback and four attempts allowed, all four failed: three
\* waits, the third of four times the base delay.
C28_Witness ==
    /\ retryPc = "rejected"
    /\ config.onRetry
    /\ config.maxRetries = 4
    /\ config.baseDelayMs = 1000
    /\ Len(events) = 11
    /\ events[9] = WaitEvent(3, 4000)

----------------------------------------------------------------------------
(* Properties of validateChunks *)

\* The list is not empty and every chunk has entries: whatever is found is
\* a finding about chunk quality.
QualityFindingsOnly ==
    /\ Len(checkedChunks) > 0
    /\ \A i \in 1..Len(checkedChunks) : checkedChunks[i].entryCount > 0

\* C24: chunk-quality findings (count too high, chunk too short or too long,
\* low confidence, non-monotonic start times) are warnings only: they add no
\* error and leave isValid true.
C24_QualityFindingsAreWarnings ==
    (checkPc = "returned" /\ QualityFindingsOnly) =>
        /\ chunkValidation.isValid
        /\ chunkValidation.errors = <<>>

----------------------------------------------------------------------------
(* createSingleChunk against findNaturalBreakPoints *)

\* The detector retains the break between the chunk's last entry and the
\* entry after it, with the chunk's reason.  The detector names the pair
\* (i, i + 1) by i + 1, findNearestBreakPoint by i.
DetectorAgrees(chunk) ==
    LET endIndex == chunk.startIndex + chunk.entryCount - 1
        detected == FindNaturalBreakPoints(entries)
    IN  \E k \in 1..Len(detected) :
            /\ detected[k].entryIndex = endIndex + 1
            /\ detected[k].reason = chunk.breakPointReason

\* C27: every chunk that ends on a natural break ends at a position that
\* findNaturalBreakPoints retains for the same entries, and carries the
\* reason the detector gives for that position.
C27_BreakIsDetectorCandidate ==
    \A k \in 1..Len(chunks) : chunks[k].hasNaturalBreak => DetectorAgrees(chunks[k])

----------------------------------------------------------------------------
(* Frame of normalizeTimestampResponse *)

\* The seconds a time string denotes, read field by field with parseInt as
\* the schema's refinements read it; NaN when the string has not two or
\* three fields or a field has no leading number.
DenotedSeconds(t) ==
    LET parts == SplitColon(t)
        numbers == [k \in 1..Len(parts) |-> ParseInt(parts[k])]
    IN  IF Len(parts) \notin {2, 3} \/ \E k \in 1..Len(parts) : numbers[k].nan
        THEN [nan |-> TRUE, value |-> 0]
        ELSE [nan |-> FALSE, value |-> TimeToSeconds(t)]

\* The returned list has the moments of the response, one for one in the
\* same order, with the same description and a time of the same seconds.
SameMoments ==
    normPc = "returned" =>
        /\ Len(normalized) = Len(response)
        /\ \A k \in 1..Len(response) :
              /\ DOMAIN normalized[k] = DOMAIN response[k]
              /\ normalized[k].description = response[k].description
              /\ DenotedSeconds(normalized[k].time) = DenotedSeconds(response[k].time)

====
